---- MODULE Spec2Model ----
(***************************************************************************)
(* ServiceContainer of src/src/mod.ts: the registry table, the shared      *)
(* registration records, the per-scope instance caches, the scope stack    *)
(* and the resolutions in progress (a factory is user code: it returns a   *)
(* value or throws, and before that it may call back into the container).  *)
(*                                                                         *)
(* Every method is an operator from a container state C to the state after *)
(* the call and what the call returned; the actions apply these operators  *)
(* to the variables.                                                       *)
(***************************************************************************)
EXTENDS Integers, Sequences, FiniteSets, TLC

\* ------------------------------------------------------------------ inputs
NameOrder == <<"a", "b", "c">>
Names == {NameOrder[i] : i \in DOMAIN NameOrder}
Lifetimes == {"singleton", "transient", "scoped", "factory"}
Factories == {"f", "g"}
ScopeOrder == <<"s1", "s2">>
ScopeIds == {ScopeOrder[i] : i \in DOMAIN ScopeOrder}
NoScope == "-"
NoKey == "-"

\* the alias lists of at most n names out of N (a name may occur twice)
AliasLists(N, n) == UNION {[1..k -> N] : k \in 0..n}

\* ------------------------------------------------------------------ values
\* what a factory can return: a primitive (the four absent-equivalents, the
\* booleans, a fallback given to getOrDefault) or an object, which has an
\* identity
Prim(t) == [t |-> t, id |-> 0]
Obj(n) == [t |-> "obj", id |-> n]
Undefined == Prim("undefined")
AbsentLike == {Prim("undefined"), Prim("null"), Prim("zero"), Prim("empty")}
True == Prim("true")
False == Prim("false")
Fallback == Prim("fallback")

\* the private marker of a singleton slot that was never filled
NOT_CREATED == [t |-> "NOT_CREATED", id |-> 0]

\* ------------------------------------------------------------------ state
VARIABLES
  services,         \* Map<string, ServiceRegistration>: key -> registration
  regs,             \* the ServiceRegistration objects that are referenced
  scopedInstances,  \* Map<IServiceScope, Map<string, unknown>>
  scopeStack,       \* IServiceScope[]
  scopes,           \* the scope tokens createScope has returned
  frames,           \* resolutions whose factory is running, outermost first
  invoked           \* history: the singleton registrations of the table whose factory was called

vars == <<services, regs, scopedInstances, scopeStack, scopes, frames, invoked>>

\* the container as one value
Container ==
  [services |-> services, regs |-> regs, scopedInstances |-> scopedInstances,
   scopeStack |-> scopeStack, scopes |-> scopes, frames |-> frames, invoked |-> invoked]

\* ------------------------------------------------------------------ maps
EmptyMap == [x \in {} |-> 0]
Put(f, k, v) == [x \in (DOMAIN f) \cup {k} |-> IF x = k THEN v ELSE f[x]]
Del(f, k) == [x \in (DOMAIN f) \ {k} |-> f[x]]
DelAll(f, K) == [x \in (DOMAIN f) \ K |-> f[x]]
Range(f) == {f[x] : x \in DOMAIN f}
Min(S) == CHOOSE x \in S : \A y \in S : x <= y

\* identities: enough of them that none is ever missing (a registration is
\* referenced by a key or by a resolution in progress; an object by a slot
\* or a cache entry, or it is the one a factory is returning)
RecIds == 1..(2 * Cardinality(Names) + 2)
ObjIds == 1..(Cardinality(RecIds) + Cardinality(Names) * Cardinality(ScopeIds) + 1)

\* what a call returns: the container afterwards, the error thrown ("none"
\* when it returned) and the value returned
Out(C, err, val) == [st |-> C, err |-> err, val |-> val]

\* the registration objects something still refers to (the table and the
\* local variable `registration` of every resolution in progress), and the
\* history of the registrations that are in the table
Collect(C) ==
  LET live == Range(C.services) \cup {C.frames[j].rec : j \in DOMAIN C.frames}
  IN [C EXCEPT !.regs = [i \in (DOMAIN C.regs) \cap live |-> C.regs[i]],
               !.invoked = C.invoked \cap Range(C.services)]

\* a registration object that is not one of rg
NewId(rg) == Min(RecIds \ DOMAIN rg)

\* ------------------------------------------------------------------ has
has(C, name) == name \in DOMAIN C.services

\* ------------------------------------------------------------------ getServiceInfo
NoInfo == [name |-> NoKey, lifetime |-> "-", aliases |-> <<>>, hasInstance |-> FALSE]

\* an info whose hasInstance takes a slot that holds undefined for empty
getServiceInfoFalsy(C, name) ==
  IF name \notin DOMAIN C.services
  THEN NoInfo
  ELSE LET registration == C.regs[C.services[name]]
       IN [name |-> registration.name,
           lifetime |-> registration.lifetime,
           aliases |-> registration.aliases,
           hasInstance |-> registration.lifetime = "singleton"
                             /\ registration.instance \notin {NOT_CREATED, Undefined}]

getServiceInfo(C, name) ==
  IF name \notin DOMAIN C.services
  THEN NoInfo
  ELSE LET registration == C.regs[C.services[name]]
       IN [name |-> registration.name,
           lifetime |-> registration.lifetime,
           aliases |-> registration.aliases,
           hasInstance |-> registration.lifetime = "singleton"
                             /\ registration.instance # NOT_CREATED]

\* ------------------------------------------------------------------ register
\* a registration born with undefined in its slot instead of the sentinel
NewRegistrationUndefined(name, lifetime, factory, aliases) ==
  [name |-> name, lifetime |-> lifetime, factory |-> factory,
   instance |-> Undefined, aliases |-> aliases]

NewRegistration(name, lifetime, factory, aliases) ==
  [name |-> name, lifetime |-> lifetime, factory |-> factory,
   instance |-> NOT_CREATED, aliases |-> aliases]

\* an alias loop that stops one alias short
RECURSIVE InstallAliasesButLast(_, _, _, _)
InstallAliasesButLast(svc, id, aliases, i) ==
  IF i >= Len(aliases) THEN [services |-> svc, err |-> "none"]
  ELSE IF aliases[i] \in DOMAIN svc THEN [services |-> svc, err |-> "DuplicateAlias"]
  ELSE InstallAliasesButLast(Put(svc, aliases[i], id), id, aliases, i + 1)

\* the alias loop: aliases are installed one at a time, and the loop is left
\* by the throw at the first alias that is already a key
RECURSIVE InstallAliases(_, _, _, _)
InstallAliases(svc, id, aliases, i) ==
  IF i > Len(aliases) THEN [services |-> svc, err |-> "none"]
  ELSE IF aliases[i] \in DOMAIN svc THEN [services |-> svc, err |-> "DuplicateAlias"]
  ELSE InstallAliases(Put(svc, aliases[i], id), id, aliases, i + 1)

\* a register without the check of the name: the key is bound again
registerOverwrite(C, name, lifetime, factory, aliases) ==
  LET id == NewId(C.regs)
      r == InstallAliases(Put(C.services, name, id), id, aliases, 1)
  IN Out([C EXCEPT !.services = r.services,
                   !.regs = Put(C.regs, id, NewRegistration(name, lifetime, factory, aliases))],
         r.err, Undefined)

\* a register that calls the factory of a singleton at once
registerEager(C, name, lifetime, factory, aliases) ==
  IF name \in DOMAIN C.services
  THEN Out(C, "DuplicateName", Undefined)
  ELSE LET id == NewId(C.regs)
           r == InstallAliases(Put(C.services, name, id), id, aliases, 1)
       IN Out([C EXCEPT !.services = r.services,
                        !.regs = Put(C.regs, id, NewRegistration(name, lifetime, factory, aliases)),
                        !.invoked = IF lifetime = "singleton" THEN @ \cup {id} ELSE @],
              r.err, Undefined)

register(C, name, lifetime, factory, aliases) ==
  IF name \in DOMAIN C.services
  THEN Out(C, "DuplicateName", Undefined)
  ELSE LET id == NewId(C.regs)
           r == InstallAliases(Put(C.services, name, id), id, aliases, 1)
       IN Out([C EXCEPT !.services = r.services,
                        !.regs = Put(C.regs, id, NewRegistration(name, lifetime, factory, aliases))],
              r.err, Undefined)

\* ------------------------------------------------------------------ remove
\* a remove that deletes the key it was given and no other
removeNameOnly(C, name) ==
  IF name \notin DOMAIN C.services
  THEN Out(C, "none", False)
  ELSE Out(Collect([C EXCEPT !.services = Del(@, name)]), "none", True)

\* a remove that leaves the caches of the scopes alone
removeKeepCaches(C, name) ==
  IF name \notin DOMAIN C.services
  THEN Out(C, "none", False)
  ELSE LET id == C.services[name]
           registration == C.regs[id]
       IN Out(Collect([C EXCEPT
                 !.services = DelAll(@, {registration.name} \cup Range(registration.aliases))]),
              "none", True)

\* a remove that purges the name from the caches before it looks at the table
removePurgeFirst(C, name) ==
  LET P == [C EXCEPT !.scopedInstances = [s \in DOMAIN @ |-> Del(@[s], name)]]
  IN IF name \notin DOMAIN C.services
     THEN Out(P, "none", False)
     ELSE LET id == C.services[name]
              registration == C.regs[id]
              mainName == registration.name
          IN Out(Collect([P EXCEPT
                    !.services = DelAll(@, {mainName} \cup Range(registration.aliases)),
                    !.regs = IF registration.lifetime = "singleton"
                             THEN [@ EXCEPT ![id].instance = NOT_CREATED]
                             ELSE @,
                    !.scopedInstances = [s \in DOMAIN @ |-> Del(@[s], mainName)]]),
                 "none", True)

remove(C, name) ==
  IF name \notin DOMAIN C.services
  THEN Out(C, "none", False)
  ELSE LET id == C.services[name]
           registration == C.regs[id]
           mainName == registration.name
       IN Out(Collect([C EXCEPT
                 !.services = DelAll(@, {mainName} \cup Range(registration.aliases)),
                 !.regs = IF registration.lifetime = "singleton"
                          THEN [@ EXCEPT ![id].instance = NOT_CREATED]
                          ELSE @,
                 !.scopedInstances = [s \in DOMAIN @ |-> Del(@[s], mainName)]]),
              "none", True)

\* ------------------------------------------------------------------ replace
\* a replace that registers without removing first
replaceNoRemove(C, name, lifetime, factory, aliases) ==
  register(C, name, lifetime, factory, aliases)

\* a replace that binds the name again and leaves the old aliases in place
replaceOverwrite(C, name, lifetime, factory, aliases) ==
  registerOverwrite(C, name, lifetime, factory, aliases)

replace(C, name, lifetime, factory, aliases) ==
  register(remove(C, name).st, name, lifetime, factory, aliases)

\* ------------------------------------------------------------------ scopes
\* the Map a resolution in progress holds for a scope of S is no longer the
\* one in scopedInstances once the scope has been deleted from it
Detach(frs, S) ==
  [j \in DOMAIN frs |-> IF frs[j].cur \in S THEN [frs[j] EXCEPT !.mapLive = FALSE] ELSE frs[j]]

\* a clear that leaves the caches of the scopes alone
clearKeepCaches(C) ==
  Out(Collect([C EXCEPT !.services = EmptyMap, !.scopeStack = <<>>]), "none", Undefined)

clear(C) ==
  Out(Collect([C EXCEPT !.services = EmptyMap,
                        !.scopedInstances = EmptyMap,
                        !.scopeStack = <<>>,
                        !.frames = Detach(@, ScopeIds)]),
      "none", Undefined)

\* createScope returns a token that is none of the existing ones
createScope(C, scope) ==
  Out([C EXCEPT !.scopes = @ \cup {scope}], "none", Undefined)

\* a has that asks the cache of the scope
scopeHasCached(C, scope, name) ==
  scope \in DOMAIN C.scopedInstances /\ name \in DOMAIN C.scopedInstances[scope]

\* scope.has
scopeHas(C, scope, name) == has(C, name)

\* a dispose that keeps the instances
disposeNothing(C, scope) == Out(C, "none", Undefined)

dispose(C, scope) ==
  Out([C EXCEPT !.scopedInstances = Del(@, scope),
                !.frames = Detach(@, {scope})],
      "none", Undefined)

\* scope.get: push before get, pop in the finally block
push(stack, scope) == Append(stack, scope)
pop(stack) == IF Len(stack) = 0 THEN stack ELSE SubSeq(stack, 1, Len(stack) - 1)

\* the outermost scope instead of the innermost
getCurrentScopeOutermost(stack) ==
  IF Len(stack) > 0 THEN stack[1] ELSE NoScope

getCurrentScope(stack) ==
  IF Len(stack) > 0 THEN stack[Len(stack)] ELSE NoScope

\* ------------------------------------------------------------------ get
\* What a resolution does before it calls the factory:
\*   kind "value": a cached instance is returned,
\*   kind "error": get throws,
\*   kind "invoke": invokeFactory is called; rec and cur are the local
\*                  variables registration and currentScope,
\* and si is scopedInstances afterwards (getScoped installs the scope's Map).
Outcome(kind, err, val, rec, cur, si) ==
  [kind |-> kind, err |-> err, val |-> val, rec |-> rec, cur |-> cur, si |-> si]

\* a singleton that is built on every call
getSingletonUncached(C, id) ==
  Outcome("invoke", "none", Undefined, id, NoScope, C.scopedInstances)

\* a singleton whose slot counts as empty when it holds undefined
getSingletonFalsy(C, id) ==
  IF C.regs[id].instance \notin {NOT_CREATED, Undefined}
  THEN Outcome("value", "none", C.regs[id].instance, id, NoScope, C.scopedInstances)
  ELSE Outcome("invoke", "none", Undefined, id, NoScope, C.scopedInstances)

\* a getSingleton that does not call a factory that is running
getSingletonGuarded(C, id) ==
  IF C.regs[id].instance # NOT_CREATED \/ id \in {C.frames[j].rec : j \in DOMAIN C.frames}
  THEN Outcome("value", "none", Undefined, id, NoScope, C.scopedInstances)
  ELSE Outcome("invoke", "none", Undefined, id, NoScope, C.scopedInstances)

getSingleton(C, id) ==
  IF C.regs[id].instance # NOT_CREATED
  THEN Outcome("value", "none", C.regs[id].instance, id, NoScope, C.scopedInstances)
  ELSE Outcome("invoke", "none", Undefined, id, NoScope, C.scopedInstances)

getTransient(C, id) ==
  Outcome("invoke", "none", Undefined, id, NoScope, C.scopedInstances)

\* a scoped lookup that takes the instance of any scope that has one
getScopedShared(C, id) ==
  LET currentScope == getCurrentScope(C.scopeStack)
      si == C.scopedInstances
      si1 == IF currentScope \in DOMAIN si THEN si ELSE Put(si, currentScope, EmptyMap)
      name == C.regs[id].name
      have == {s \in DOMAIN si1 : name \in DOMAIN si1[s]}
  IN IF currentScope = NoScope
     THEN Outcome("error", "NoActiveScope", Undefined, id, NoScope, si)
     ELSE IF have # {}
          THEN Outcome("value", "none", si1[CHOOSE s \in have : TRUE][name], id, currentScope, si1)
          ELSE Outcome("invoke", "none", Undefined, id, currentScope, si1)

\* a scoped lookup that calls the factory when there is no current scope
getScopedUnchecked(C, id) ==
  LET currentScope == getCurrentScope(C.scopeStack)
      si == C.scopedInstances
      si1 == IF currentScope \in DOMAIN si \/ currentScope = NoScope
             THEN si ELSE Put(si, currentScope, EmptyMap)
  IN IF currentScope # NoScope /\ C.regs[id].name \in DOMAIN si1[currentScope]
     THEN Outcome("value", "none", si1[currentScope][C.regs[id].name], id, currentScope, si1)
     ELSE Outcome("invoke", "none", Undefined, id, currentScope, si1)

getScoped(C, id) ==
  LET currentScope == getCurrentScope(C.scopeStack)
      si == C.scopedInstances
      si1 == IF currentScope \in DOMAIN si THEN si ELSE Put(si, currentScope, EmptyMap)
  IN IF currentScope = NoScope
     THEN Outcome("error", "NoActiveScope", Undefined, id, NoScope, si)
     ELSE IF C.regs[id].name \in DOMAIN si1[currentScope]
          THEN Outcome("value", "none", si1[currentScope][C.regs[id].name], id, currentScope, si1)
          ELSE Outcome("invoke", "none", Undefined, id, currentScope, si1)

getFactory(C, id) ==
  Outcome("invoke", "none", Undefined, id, NoScope, C.scopedInstances)

\* a get that takes a tag outside the enumeration for transient
getLenient(C, name) ==
  IF ~has(C, name)
  THEN Outcome("error", "NotRegistered", Undefined, 0, NoScope, C.scopedInstances)
  ELSE LET id == C.services[name]
           lifetime == C.regs[id].lifetime
       IN CASE lifetime = "singleton" -> getSingleton(C, id)
            [] lifetime = "scoped" -> getScoped(C, id)
            [] lifetime = "factory" -> getFactory(C, id)
            [] OTHER -> getTransient(C, id)

get(C, name) ==
  IF ~has(C, name)
  THEN Outcome("error", "NotRegistered", Undefined, 0, NoScope, C.scopedInstances)
  ELSE LET id == C.services[name]
           lifetime == C.regs[id].lifetime
       IN CASE lifetime = "singleton" -> getSingleton(C, id)
            [] lifetime = "transient" -> getTransient(C, id)
            [] lifetime = "scoped" -> getScoped(C, id)
            [] lifetime = "factory" -> getFactory(C, id)
            [] OTHER -> Outcome("error", "UnsupportedLifetime", Undefined, id, NoScope, C.scopedInstances)

\* what the caller of get / tryGet / getOrDefault / scope.get receives when
\* the resolution ends with error err ("none": with value val)
Result(err, val) == [err |-> err, val |-> val]

\* a tryGet that lets the error of get through
tryGetRaises(r) == r

\* a getOrDefault that takes every falsy result for a missing one
getOrDefaultFalsy(r, defaultValue) ==
  LET result == IF r.err # "none" THEN Result("none", Undefined) ELSE r
  IN IF result.val \notin AbsentLike THEN result ELSE Result("none", defaultValue)

tryGet(r) == IF r.err # "none" THEN Result("none", Undefined) ELSE r

getOrDefault(r, defaultValue) ==
  LET result == tryGet(r)
  IN IF result.val # Undefined THEN result ELSE Result("none", defaultValue)

Received(kind, r, defaultValue) ==
  CASE kind = "tryGet" -> tryGet(r)
    [] kind = "getOrDefault" -> getOrDefault(r, defaultValue)
    [] OTHER -> r

\* a resolution in progress: the call (kind, on scope sc, with fallback dflt),
\* its local variables registration (rec) and currentScope (cur), whether
\* the Map it took from scopedInstances is still the one in there, the
\* arguments its factory was called with, and (history) the scope stack as
\* it was when the call began
Frame(kind, sc, dflt, rec, cur, args, before) ==
  [kind |-> kind, sc |-> sc, dflt |-> dflt, rec |-> rec, cur |-> cur, mapLive |-> TRUE,
   args |-> args, before |-> before]

\* every strategy hands the extra arguments on; no strategy does
ForwardedAlways(lifetime, args) == args

ForwardedNever(lifetime, args) == <<>>

\* the arguments that get hands on to the factory: its own extra arguments
\* for the factory lifetime, none for the other three
Forwarded(lifetime, args) == IF lifetime = "factory" THEN args ELSE <<>>

\* a scope.get that leaves its token on the stack when get ends at once
enterWithNoPop(C, kind, sc, key, dflt, args) ==
  LET C1 == IF kind = "scopeGet" THEN [C EXCEPT !.scopeStack = push(@, sc)] ELSE C
      o == get(C1, key)
      r == Received(kind, Result(o.err, o.val), dflt)
  IN IF o.kind = "invoke"
     THEN [done |-> FALSE, err |-> "none", val |-> Undefined,
           st |-> [C1 EXCEPT !.scopedInstances = o.si,
                             !.frames = Append(@, Frame(kind, sc, dflt, o.rec, o.cur,
                                                        Forwarded(C.regs[o.rec].lifetime, args),
                                                        C.scopeStack)),
                             !.invoked = IF C.regs[o.rec].lifetime = "singleton"
                                          THEN @ \cup {o.rec} ELSE @]]
     ELSE [done |-> TRUE, err |-> r.err, val |-> r.val,
           st |-> [C1 EXCEPT !.scopedInstances = o.si]]

\* container.get, container.tryGet, container.getOrDefault (sc = NoScope) and
\* scope.get (kind "scopeGet", on scope sc) up to the call of the factory:
\* done says that the call has ended without calling it
enterWith(C, kind, sc, key, dflt, args) ==
  LET C1 == IF kind = "scopeGet" THEN [C EXCEPT !.scopeStack = push(@, sc)] ELSE C
      o == get(C1, key)
      r == Received(kind, Result(o.err, o.val), dflt)
  IN IF o.kind = "invoke"
     THEN [done |-> FALSE, err |-> "none", val |-> Undefined,
           st |-> [C1 EXCEPT !.scopedInstances = o.si,
                             !.frames = Append(@, Frame(kind, sc, dflt, o.rec, o.cur,
                                                        Forwarded(C.regs[o.rec].lifetime, args),
                                                        C.scopeStack)),
                             !.invoked = IF C.regs[o.rec].lifetime = "singleton"
                                          THEN @ \cup {o.rec} ELSE @]]
     ELSE [done |-> TRUE, err |-> r.err, val |-> r.val,
           st |-> [C1 EXCEPT !.scopedInstances = o.si,
                             !.scopeStack = IF kind = "scopeGet" THEN pop(@) ELSE @]]

\* the same call without extra arguments
enter(C, kind, sc, key, dflt) == enterWith(C, kind, sc, key, dflt, <<>>)

\* an end of a resolution that stores what it has, also after a throw
leaveCaching(C, err, val) ==
  LET fr == C.frames[Len(C.frames)]
      registration == C.regs[fr.rec]
      r == Received(fr.kind, Result(err, val), fr.dflt)
  IN Out(Collect([C EXCEPT
           !.frames = SubSeq(@, 1, Len(@) - 1),
           !.regs = IF registration.lifetime = "singleton"
                    THEN [@ EXCEPT ![fr.rec].instance = val]
                    ELSE @,
           !.scopedInstances =
                    IF registration.lifetime = "scoped" /\ fr.mapLive
                    THEN [@ EXCEPT ![fr.cur] = Put(@, registration.name, val)]
                    ELSE @,
           !.scopeStack = IF fr.kind = "scopeGet" THEN pop(@) ELSE @]),
         r.err, r.val)

\* invokeFactory has returned val (err = "none") or thrown: the rest of the
\* innermost resolution in progress
leave(C, err, val) ==
  LET fr == C.frames[Len(C.frames)]
      registration == C.regs[fr.rec]
      r == Received(fr.kind, Result(err, val), fr.dflt)
  IN Out(Collect([C EXCEPT
           !.frames = SubSeq(@, 1, Len(@) - 1),
           !.regs = IF err = "none" /\ registration.lifetime = "singleton"
                    THEN [@ EXCEPT ![fr.rec].instance = val]
                    ELSE @,
           !.scopedInstances =
                    IF err = "none" /\ registration.lifetime = "scoped" /\ fr.mapLive
                    THEN [@ EXCEPT ![fr.cur] = Put(@, registration.name, val)]
                    ELSE @,
           !.scopeStack = IF fr.kind = "scopeGet" THEN pop(@) ELSE @]),
         r.err, r.val)

\* a whole call whose factory, if it is called, returns val (ferr = "none")
\* or throws without calling the container
resolveWith(C, kind, sc, key, dflt, args, ferr, fval) ==
  LET e == enterWith(C, kind, sc, key, dflt, args)
  IN IF e.done THEN Out(e.st, e.err, e.val) ELSE leave(e.st, ferr, fval)

resolve(C, kind, sc, key, dflt, ferr, fval) ==
  resolveWith(C, kind, sc, key, dflt, <<>>, ferr, fval)

\* ------------------------------------------------------------------ errors
\* What a factory may throw: an Error with a message, or any other value. A
\* message is the sequence of the pieces of text it is made of.
Err(message) == [t |-> "Error", message |-> message]
Str(text) == [t |-> "string", message |-> text]
PlainObject == Prim("object")
\* an object without toString and valueOf, such as Object.create(null)
BareObject == Prim("bare")
TypeError == [t |-> "TypeError", message |-> <<"Cannot convert object to primitive value">>]
Thrown ==
  {Err(<<"boom">>), Err(<<>>), Str(<<"text">>), Undefined, Prim("null"), Prim("zero"),
   PlainObject, BareObject}

\* String(error) for a value that is not an Error: the text, or the
\* TypeError that the conversion of an object without toString and valueOf
\* throws
String(error) ==
  [threw |-> error.t = "bare",
   text |-> CASE error.t = "string" -> error.message
              [] error.t = "undefined" -> <<"undefined">>
              [] error.t = "null" -> <<"null">>
              [] error.t = "zero" -> <<"0">>
              [] error.t = "object" -> <<"[object Object]">>
              [] OTHER -> <<>>]

\* the fixed text of the wrapper's message, before and after the name
Before == "service \""
After == "\" creation failed: "

\* the catch block of invokeFactory: what get raises when the factory threw
\* error
wrappedError(registration, error) ==
  IF error.t = "Error"
  THEN Err(<<Before, registration.name, After>> \o error.message)
  ELSE IF String(error).threw
       THEN TypeError
       ELSE Err(<<Before, registration.name, After>> \o String(error).text)

\* the factory of the innermost resolution in progress has thrown error
leaveThrown(C, error) ==
  LET raised == wrappedError(C.regs[C.frames[Len(C.frames)].rec], error)
  IN leave(C, IF raised.t = "Error" THEN "FactoryFailure" ELSE "TypeError", raised)

\* a whole call whose factory, if it is called, throws error
resolveThrown(C, kind, sc, key, dflt, args, error) ==
  LET e == enterWith(C, kind, sc, key, dflt, args)
  IN IF e.done THEN Out(e.st, e.err, e.val) ELSE leaveThrown(e.st, error)

\* ------------------------------------------------------------------ identities
\* Registration objects and the objects that factories return have no name
\* in the program, only an identity. A state is kept with its identities
\* numbered in the order in which the table, the resolutions in progress,
\* the slots and the caches meet them, so that two states
\* that differ in nothing but the numbering are one state.
RECURSIVE Dedup(_, _, _)
Dedup(seq, i, acc) ==
  IF i > Len(seq) THEN acc
  ELSE Dedup(seq, i + 1, IF \E j \in DOMAIN acc : acc[j] = seq[i] THEN acc ELSE Append(acc, seq[i]))

IndexOf(seq, x) == CHOOSE i \in DOMAIN seq : seq[i] = x

RECURSIVE Flatten(_, _)
Flatten(seqs, i) == IF i > Len(seqs) THEN <<>> ELSE seqs[i] \o Flatten(seqs, i + 1)

\* ------------------------------------------------------------------ discovery
\* The three listings walk services.entries(), that is the keys in the order
\* in which they were inserted; keys is that order.
Entries(C) ==
  {keys \in [1..Cardinality(DOMAIN C.services) -> DOMAIN C.services] :
     \A i, j \in DOMAIN keys : keys[i] = keys[j] => i = j}

\* the info object that getServiceInfo and getAllServiceInfo build
Info(registration) ==
  [name |-> registration.name,
   lifetime |-> registration.lifetime,
   aliases |-> registration.aliases,
   hasInstance |-> registration.lifetime = "singleton"
                     /\ registration.instance # NOT_CREATED]

\* the name and the aliases of every record that the walk meets, added to a
\* Set and returned as an array
getRegisteredServices(C, keys) ==
  Dedup(Flatten([i \in DOMAIN keys |->
                   <<C.regs[C.services[keys[i]]].name>> \o C.regs[C.services[keys[i]]].aliases],
                1),
        1, <<>>)

\* the walk of getAllServiceInfo from entry i on: a record is listed unless
\* its name is in seen
RECURSIVE AllServiceInfo(_, _, _, _, _)
AllServiceInfo(C, keys, i, seen, result) ==
  IF i > Len(keys) THEN result
  ELSE LET registration == C.regs[C.services[keys[i]]]
       IN IF registration.name \in seen
          THEN AllServiceInfo(C, keys, i + 1, seen, result)
          ELSE AllServiceInfo(C, keys, i + 1, seen \cup {registration.name},
                              Append(result, Info(registration)))

getAllServiceInfo(C, keys) == AllServiceInfo(C, keys, 1, {}, <<>>)

\* the walk of getServicesByLifetime from entry i on
RECURSIVE ServicesByLifetime(_, _, _, _, _, _)
ServicesByLifetime(C, lifetime, keys, i, seen, result) ==
  IF i > Len(keys) THEN result
  ELSE LET registration == C.regs[C.services[keys[i]]]
       IN IF registration.lifetime = lifetime /\ registration.name \notin seen
          THEN ServicesByLifetime(C, lifetime, keys, i + 1, seen \cup {registration.name},
                                  Append(result, registration.name))
          ELSE ServicesByLifetime(C, lifetime, keys, i + 1, seen, result)

getServicesByLifetime(C, lifetime, keys) == ServicesByLifetime(C, lifetime, keys, 1, {}, <<>>)

RecOrder(C) ==
  LET keys == SelectSeq(NameOrder, LAMBDA n : n \in DOMAIN C.services)
  IN Dedup([i \in DOMAIN keys |-> C.services[keys[i]]]
             \o [j \in DOMAIN C.frames |-> C.frames[j].rec], 1, <<>>)

RenameRecs(C) ==
  LET order == RecOrder(C)
      new(i) == IndexOf(order, i)
  IN [C EXCEPT !.services = [k \in DOMAIN @ |-> new(@[k])],
               !.regs = [i \in DOMAIN order |-> C.regs[order[i]]],
               !.frames = [j \in DOMAIN @ |-> [@[j] EXCEPT !.rec = new(@)]],
               !.invoked = {new(i) : i \in @}]

ObjOrder(C) ==
  LET slots == [i \in 1..Cardinality(DOMAIN C.regs) |-> C.regs[i].instance]
      cache(s) == IF s \in DOMAIN C.scopedInstances
                  THEN LET ns == SelectSeq(NameOrder, LAMBDA n : n \in DOMAIN C.scopedInstances[s])
                       IN [i \in DOMAIN ns |-> C.scopedInstances[s][ns[i]]]
                  ELSE <<>>
      all == slots \o Flatten([i \in DOMAIN ScopeOrder |-> cache(ScopeOrder[i])], 1)
      objs == SelectSeq(all, LAMBDA v : v.id > 0)
  IN Dedup([i \in DOMAIN objs |-> objs[i].id], 1, <<>>)

Normal(C0) ==
  LET C == RenameRecs(C0)
      order == ObjOrder(C)
      new(v) == IF v.id > 0 THEN Obj(IndexOf(order, v.id)) ELSE v
  IN [C EXCEPT !.regs = [i \in DOMAIN @ |-> [@[i] EXCEPT !.instance = new(@)]],
               !.scopedInstances = [s \in DOMAIN @ |-> [n \in DOMAIN @[s] |-> new(@[s][n])]]]

\* ------------------------------------------------------------------ steps

Becomes(C0) ==
  LET C == Normal(C0)
  IN
  /\ services' = C.services
  /\ regs' = C.regs
  /\ scopedInstances' = C.scopedInstances
  /\ scopeStack' = C.scopeStack
  /\ scopes' = C.scopes
  /\ frames' = C.frames
  /\ invoked' = C.invoked

UsedObjs(C) ==
  {C.regs[i].instance.id : i \in DOMAIN C.regs}
    \cup UNION {{C.scopedInstances[s][n].id : n \in DOMAIN C.scopedInstances[s]} : s \in DOMAIN C.scopedInstances}

\* a new object is identical to none that exists
FreshObj(C) == Obj(Min(ObjIds \ UsedObjs(C)))

\* what a factory may return: the values of V, where New stands for an
\* object that the factory creates
New == Obj(0)
Returns(C, V) == {IF v = New THEN FreshObj(C) ELSE v : v \in V}

Register(name, lifetime, factory, aliases) ==
  Becomes(register(Container, name, lifetime, factory, aliases).st)

Remove(name) ==
  Becomes(remove(Container, name).st)

Replace(name, lifetime, factory, aliases) ==
  Becomes(replace(Container, name, lifetime, factory, aliases).st)

Clear ==
  Becomes(clear(Container).st)

CreateScope(S) ==
  /\ S \ scopes # {}
  /\ LET i == Min({j \in DOMAIN ScopeOrder : ScopeOrder[j] \in S \ scopes})
     IN Becomes(createScope(Container, ScopeOrder[i]).st)

Dispose(scope) ==
  /\ scope \in scopes
  /\ Becomes(dispose(Container, scope).st)

\* With circular = FALSE no factory re-enters a name that is already being
\* resolved: a call made while factories run reaches no factory of a name
\* whose factory is among them.
Resolving(C) == {C.regs[C.frames[j].rec].name : j \in DOMAIN C.frames}

Reenters(C, e) ==
  /\ ~e.done
  /\ e.st.regs[e.st.frames[Len(e.st.frames)].rec].name \in Resolving(C)

\* a call on the container or on a scope whose factory, if it is called,
\* returns or throws without calling the container
Resolve(kind, sc, key, dflt, args, V, T, circular) ==
  /\ IF kind = "scopeGet" THEN sc \in scopes ELSE sc = NoScope
  /\ circular \/ ~Reenters(Container, enterWith(Container, kind, sc, key, dflt, args))
  /\ \/ \E v \in Returns(Container, V) :
          Becomes(resolveWith(Container, kind, sc, key, dflt, args, "none", v).st)
     \/ \E error \in T :
          Becomes(resolveThrown(Container, kind, sc, key, dflt, args, error).st)

\* a call that reaches a factory which calls the container before it ends
Enter(kind, sc, key, dflt, args, depth, circular) ==
  /\ IF kind = "scopeGet" THEN sc \in scopes ELSE sc = NoScope
  /\ Len(frames) < depth
  /\ LET e == enterWith(Container, kind, sc, key, dflt, args)
     IN /\ ~e.done
        /\ circular \/ ~Reenters(Container, e)
        /\ Becomes(e.st)

FactoryReturn(V) ==
  /\ Len(frames) > 0
  /\ \E v \in Returns(Container, V) : Becomes(leave(Container, "none", v).st)

FactoryThrow(T) ==
  /\ Len(frames) > 0
  /\ \E error \in T : Becomes(leaveThrown(Container, error).st)

Init ==
  /\ services = EmptyMap
  /\ regs = EmptyMap
  /\ scopedInstances = EmptyMap
  /\ scopeStack = <<>>
  /\ scopes = {}
  /\ frames = <<>>
  /\ invoked = {}

\* every operation of the API with its inputs drawn from the sets of P
Api(P) ==
  \/ \E n \in P.primaries, l \in P.lifetimes, f \in P.factories, al \in P.aliases : Register(n, l, f, al)
  \/ \E n \in P.names : Remove(n)
  \/ \E n \in P.primaries, l \in P.tags, f \in P.factories, al \in P.aliases : Replace(n, l, f, al)
  \/ Clear
  \/ CreateScope(P.scopes)
  \/ \E s \in P.scopes : Dispose(s)
  \/ \E n \in P.names, k \in P.kinds, a \in P.args :
       Resolve(k, NoScope, n, Fallback, a, P.returns, P.throws, P.circular)
  \/ \E n \in P.names, s \in P.scopes, a \in P.args :
       Resolve("scopeGet", s, n, Undefined, a, P.returns, P.throws, P.circular)

\* the same with factories that call the container before they end
Reentrant(P) ==
  \/ Api(P)
  \/ \E n \in P.names, k \in P.kinds, a \in P.args :
       Enter(k, NoScope, n, Fallback, a, P.depth, P.circular)
  \/ \E n \in P.names, s \in P.scopes, a \in P.args :
       Enter("scopeGet", s, n, Undefined, a, P.depth, P.circular)
  \/ FactoryReturn(P.returns)
  \/ FactoryThrow(P.throws)

\* ------------------------------------------------------------------ bounds
\* longest alias list that the properties pass to register
MaxAliases == 2
\* deepest nesting of resolutions (a factory that resolves inside a factory)
MaxDepth == 2

Kinds == {"get", "tryGet", "getOrDefault"}

\* calls made one after the other, with factories that return or throw
\* without calling the container: singleton and scoped registrations under
\* two primary names, with alias lists that can collide
Table ==
  [names |-> Names, primaries |-> {"a", "c"}, lifetimes |-> {"singleton", "scoped"}, tags |-> {"singleton", "scoped"},
   factories |-> {"f"}, aliases |-> {<<>>, <<"a">>, <<"b">>}, scopes |-> {"s1"},
   kinds |-> Kinds, args |-> {<<>>}, returns |-> {New}, throws |-> {Undefined},
   circular |-> FALSE]

\* singletons whose factories resolve other names before they return
Nested ==
  [names |-> Names, primaries |-> {"a", "b"}, lifetimes |-> {"singleton"}, tags |-> {"singleton"},
   factories |-> {"f"}, aliases |-> {<<>>, <<"c">>}, scopes |-> {"s1"}, kinds |-> Kinds,
   args |-> {<<>>}, returns |-> {Undefined, New}, throws |-> {Undefined}, depth |-> MaxDepth,
   circular |-> FALSE]

\* scoped registrations whose factories resolve other names, in two scopes
NestedScoped ==
  [names |-> Names, primaries |-> {"a", "b"}, lifetimes |-> {"scoped"}, tags |-> {"scoped"},
   factories |-> {"f"}, aliases |-> {<<>>, <<"c">>}, scopes |-> ScopeIds, kinds |-> {"get"},
   args |-> {<<>>}, returns |-> {New}, throws |-> {Undefined}, depth |-> MaxDepth,
   circular |-> FALSE]

\* one registration of any of the four lifetimes, under its name or its name
\* and an alias, called with and without extra arguments
Fresh ==
  [names |-> Names, primaries |-> {"a"}, lifetimes |-> Lifetimes, tags |-> Lifetimes,
   factories |-> {"f"}, aliases |-> {<<>>, <<"b">>}, scopes |-> {"s1"}, kinds |-> {"get"},
   args |-> {<<>>, <<"x", "y">>}, returns |-> {New}, throws |-> Thrown, depth |-> MaxDepth,
   circular |-> FALSE]

\* registrations under two names, singleton or scoped, whose factories
\* resolve each other and never a name that is being resolved; resolutions
\* may nest one deeper than there are names to register
Resolvable == {"a", "b"}

Acyclic ==
  [names |-> Names, primaries |-> Resolvable, lifetimes |-> {"singleton", "scoped"},
   tags |-> {"singleton"}, factories |-> {"f"}, aliases |-> {<<>>}, scopes |-> {"s1"},
   kinds |-> {"get"}, args |-> {<<>>}, returns |-> {New}, throws |-> {Undefined},
   depth |-> Cardinality(Resolvable) + 1, circular |-> FALSE]

\* a lifetime tag outside the enumeration, which replace takes as it is
Unknown == "unknown"

\* one registration, singleton or scoped, that replace can give a tag
\* outside the enumeration
Tagged ==
  [names |-> Names, primaries |-> {"a"}, lifetimes |-> {"singleton", "scoped"},
   tags |-> {"singleton", Unknown}, factories |-> {"f"}, aliases |-> {<<>>, <<"b">>},
   scopes |-> {"s1"}, kinds |-> Kinds, args |-> {<<>>, <<"x", "y">>}, returns |-> {New},
   throws |-> {Undefined}, depth |-> MaxDepth, circular |-> FALSE]

Spec == Init /\ [][Api(Table)]_vars

SpecNested == Init /\ [][Reentrant(Nested)]_vars

SpecScoped == Init /\ [][Reentrant(NestedScoped)]_vars

SpecFresh == Init /\ [][Reentrant(Fresh)]_vars

SpecTagged == Init /\ [][Reentrant(Tagged)]_vars

\* Factories that return or throw. A factory ends when it returns or throws
\* (the only steps that take a resolution off the stack), and a factory that
\* is the innermost one running again and again does so at last: it makes
\* finitely many calls. This is strong fairness of the end of the factory at
\* every depth d, which is enabled exactly when d factories are running.
EndsAt(d) == Len(frames) = d /\ Len(frames') = d - 1

FactoriesEnd(P) ==
  \A d \in 1..P.depth : (<>[](Len(frames) # d)) \/ ([]<><<EndsAt(d)>>_vars)

SpecAcyclic == Init /\ [][Reentrant(Acyclic)]_vars /\ FactoriesEnd(Acyclic)

\* ------------------------------------------------------------------ properties
\* The properties are stated on every reachable state of the container: what
\* a call made in that state returns and what it leaves behind.

\* the alias lists given to register
AnyAliases == AliasLists(Names, MaxAliases)
\* the calls that resolve a name: <<kind, scope>>
Calls == {<<k, NoScope>> : k \in Kinds} \cup {<<"scopeGet", s>> : s \in scopes}
\* what the factory of such a call does: it returns a value, one that looks
\* absent or an object that it creates, or it throws
Values == AbsentLike \cup {FreshObj(Container)}
Outcomes == {<<"none", v>> : v \in Values} \cup {<<"FactoryFailure", Undefined>>}

SingletonKeys == {k \in DOMAIN services : regs[services[k]].lifetime = "singleton"}
ScopedKeys == {k \in DOMAIN services : regs[services[k]].lifetime = "scoped"}
\* the innermost resolution in progress
Top(C) == C.frames[Len(C.frames)]
\* scope S has an entry for name n
Cached(C, S, n) == S \in DOMAIN C.scopedInstances /\ n \in DOMAIN C.scopedInstances[S]
\* the cache of scope B is the same in C and in D
SameCache(C, D, B) ==
  /\ (B \in DOMAIN C.scopedInstances) = (B \in DOMAIN D.scopedInstances)
  /\ B \in DOMAIN C.scopedInstances => C.scopedInstances[B] = D.scopedInstances[B]

\* C1 as stated: between its registration and its removal the factory of a
\* singleton is called at most once, whatever the calls: once it has been
\* called and that call has ended, no get, tryGet, getOrDefault or scope.get
\* under any key of the registration calls it again.
C1_Original ==
  \A k \in SingletonKeys :
    (services[k] \in invoked /\ regs[services[k]].name \notin Resolving(Container)) =>
      \A c \in Calls : enter(Container, c[1], c[2], k, Fallback).done

\* C1, amended: once the factory of a singleton has returned a value, no get,
\* tryGet, getOrDefault or scope.get under the primary name or an alias calls
\* it again, and no such call empties the slot.
C1_NotInvokedOnceCreated ==
  \A k \in SingletonKeys :
    regs[services[k]].instance # NOT_CREATED =>
      /\ \A c \in Calls : enter(Container, c[1], c[2], k, Fallback).done
      /\ \A c \in Calls, k2 \in Names, o \in Outcomes :
           resolve(Container, c[1], c[2], k2, Fallback, o[1], o[2]).st.regs[services[k]].instance
             # NOT_CREATED

C1_Witness ==
  \E k \in SingletonKeys :
    /\ k # regs[services[k]].name
    /\ regs[services[k]].instance # NOT_CREATED
    /\ services[k] \in invoked

\* C2: once the factory of a singleton has returned a value, be it undefined,
\* null, 0 or "", getServiceInfo reports hasInstance = true and every later
\* get returns that value without calling the factory; no resolution, begun
\* or ended, changes the value.
C2_ReturnedValueIsKept ==
  /\ \A k \in SingletonKeys :
       LET id == services[k]
       IN IF regs[id].instance = NOT_CREATED
          THEN \A v \in Values :
                 LET o == resolve(Container, "get", NoScope, k, Undefined, "none", v)
                     e == enter(o.st, "get", NoScope, k, Undefined)
                 IN /\ o.err = "none" /\ o.val = v
                    /\ getServiceInfo(o.st, k).hasInstance
                    /\ e.done /\ e.err = "none" /\ e.val = v
          ELSE LET e == enter(Container, "get", NoScope, k, Undefined)
               IN /\ getServiceInfo(Container, k).hasInstance
                  /\ e.done /\ e.err = "none" /\ e.val = regs[id].instance
                  /\ \A c \in Calls, k2 \in Names, o \in Outcomes :
                       resolve(Container, c[1], c[2], k2, Fallback, o[1], o[2]).st.regs[id].instance
                         = regs[id].instance
  /\ frames # <<>> =>
       \A o \in Outcomes, k \in SingletonKeys :
         LET r == leave(Container, o[1], o[2])
             id == services[k]
         IN /\ regs[id].instance # NOT_CREATED => r.st.regs[id].instance = regs[id].instance
            /\ (Top(Container).rec = id /\ o[1] = "none") =>
                 /\ r.st.regs[id].instance = o[2]
                 /\ getServiceInfo(r.st, k).hasInstance

C2_Witness ==
  \E k \in SingletonKeys : regs[services[k]].instance = Undefined

\* C3: for a scoped registration and a scope S, the first scope.get calls the
\* factory and caches what it returned, every later scope.get on S returns
\* that instance without calling the factory, and no resolution, begun or
\* ended, changes it; a scope that has no instance calls the factory itself,
\* whatever the other scopes hold, and gets an instance of its own.
C3_OncePerScope ==
  \A k \in ScopedKeys, S \in scopes :
    LET n == regs[services[k]].name
        e == enter(Container, "scopeGet", S, k, Undefined)
    IN IF Cached(Container, S, n)
       THEN LET x == scopedInstances[S][n]
            IN /\ e.done /\ e.err = "none" /\ e.val = x
               /\ \A c \in Calls, k2 \in Names, o \in Outcomes :
                    LET r == resolve(Container, c[1], c[2], k2, Fallback, o[1], o[2])
                    IN Cached(r.st, S, n) /\ r.st.scopedInstances[S][n] = x
               /\ frames # <<>> =>
                    \A o \in Outcomes :
                      LET r == leave(Container, o[1], o[2])
                      IN Cached(r.st, S, n) /\ r.st.scopedInstances[S][n] = x
       ELSE /\ ~e.done
            /\ \A v \in Values :
                 LET r == resolve(Container, "scopeGet", S, k, Undefined, "none", v)
                     e2 == enter(r.st, "scopeGet", S, k, Undefined)
                 IN /\ r.err = "none" /\ r.val = v
                    /\ Cached(r.st, S, n) /\ r.st.scopedInstances[S][n] = v
                    /\ e2.done /\ e2.val = v
                    /\ \A S2 \in scopes \ {S} :
                         Cached(Container, S2, n) =>
                           /\ r.st.scopedInstances[S2][n] = scopedInstances[S2][n]
                           /\ v.id > 0 => v # scopedInstances[S2][n]

C3_Witness ==
  \E k \in ScopedKeys :
    LET n == regs[services[k]].name
    IN /\ \A S \in ScopeIds : Cached(Container, S, n) /\ scopedInstances[S][n].id > 0
       /\ \A S1, S2 \in ScopeIds : S1 # S2 => scopedInstances[S1][n] # scopedInstances[S2][n]

\* C4: a scope.get or a dispose on scope A, from its start to its end, leaves
\* the cache of every other scope B as it is: no entry of B is added,
\* replaced or removed, and B gets no cache if it had none.
C4_ScopeIsolation ==
  \A A \in scopes : \A B \in ScopeIds \ {A} :
    /\ SameCache(Container, dispose(Container, A).st, B)
    /\ \A k \in Names :
         /\ SameCache(Container, enter(Container, "scopeGet", A, k, Undefined).st, B)
         /\ \A o \in Outcomes :
              SameCache(Container, resolve(Container, "scopeGet", A, k, Undefined, o[1], o[2]).st, B)
    /\ (frames # <<>> /\ Top(Container).kind = "scopeGet" /\ Top(Container).sc = A) =>
         \A o \in Outcomes : SameCache(Container, leave(Container, o[1], o[2]).st, B)

C4_Witness ==
  /\ Len(frames) = 2
  /\ frames[1].kind = "scopeGet" /\ frames[2].kind = "scopeGet"
  /\ frames[1].sc # frames[2].sc
  /\ \E n \in Names : Cached(Container, frames[1].sc, n)

\* C5 as stated: a register that fails on an alias that is already a key of
\* the table leaves the table as it was before the call: neither the
\* primary name nor an earlier alias of the failed call is a key afterwards.
\* (The aliases of the call are distinct names other than the primary name,
\* so that the conflict is with a key that was there before.)
C5_AllOrNothing ==
  \A name \in Names, l \in Lifetimes, f \in Factories, al \in AnyAliases :
    LET o == register(Container, name, l, f, al)
    IN (/\ o.err = "DuplicateAlias"
        /\ name \notin Range(al)
        /\ Cardinality(Range(al)) = Len(al))
         => o.st.services = services

\* C6: a register under a name that is already a key of the table raises
\* DuplicateName and changes nothing: the key is still bound to the
\* registration it was bound to.
C6_DuplicateName ==
  \A name \in DOMAIN services, l \in Lifetimes, f \in Factories, al \in AnyAliases :
    LET o == register(Container, name, l, f, al)
    IN /\ o.err = "DuplicateName"
       /\ o.st = Container
       /\ o.st.regs[o.st.services[name]] = regs[services[name]]

C6_Witness ==
  /\ DOMAIN services = Names
  /\ \E k \in DOMAIN services : k # regs[services[k]].name

\* C7: after a register with aliases that succeeded, has is true for the name
\* and for every alias, all of them resolve to one registration, and for a
\* singleton the first get under any of the keys calls the factory and a get
\* under any other of them returns the identical instance without calling it.
C7_AliasesShareRegistration ==
  \A name \in Names, l \in Lifetimes, f \in Factories, al \in AnyAliases :
    LET o == register(Container, name, l, f, al)
        keys == {name} \cup Range(al)
    IN o.err = "none" =>
         /\ \A k \in keys :
              /\ has(o.st, k)
              /\ o.st.services[k] = o.st.services[name]
              /\ getServiceInfo(o.st, k).name = name
         /\ l = "singleton" =>
              \A k1 \in keys, k2 \in keys, v \in Values :
                LET first == resolve(o.st, "get", NoScope, k1, Undefined, "none", v)
                    second == enter(first.st, "get", NoScope, k2, Undefined)
                IN /\ ~enter(o.st, "get", NoScope, k1, Undefined).done
                   /\ first.err = "none" /\ first.val = v
                   /\ second.done /\ second.err = "none" /\ second.val = v

C7_Witness ==
  \E id \in Range(services) :
    /\ regs[id].lifetime = "singleton"
    /\ Len(regs[id].aliases) > 0
    /\ \A i \in DOMAIN regs[id].aliases :
         regs[id].aliases[i] \in DOMAIN services /\ services[regs[id].aliases[i]] = id
    /\ regs[id].instance.id > 0

\* C8: remove(k), k the primary name or an alias of a registration, returns
\* true and leaves has false for the primary name and for every alias; a
\* second remove(k) returns false and changes nothing.
C8_RemoveAllKeys ==
  \A k \in DOMAIN services :
    LET registration == regs[services[k]]
        o == remove(Container, k)
        again == remove(o.st, k)
    IN /\ o.err = "none" /\ o.val = True
       /\ \A x \in {k, registration.name} \cup Range(registration.aliases) : ~has(o.st, x)
       /\ again.val = False /\ again.st = o.st

C8_Witness ==
  \E k \in DOMAIN services :
    /\ k # regs[services[k]].name
    /\ services[regs[services[k]].name] = services[k]
    /\ Cardinality(DOMAIN services) = 2

\* C9: remove(k) of a scoped registration, k its primary name or an alias,
\* deletes the entry under the primary name from the cache of every scope at
\* once; then scope.get(name) raises NotRegistered, and once the name is
\* registered again as scoped, scope.get(name) on a scope that held the old
\* instance calls the new factory and returns what that returned.
C9_RemovePurgesScopes ==
  \A k \in ScopedKeys :
    LET n == regs[services[k]].name
        removed == remove(Container, k)
    IN /\ \A S \in ScopeIds : ~Cached(removed.st, S, n)
       /\ \A S \in scopes :
            LET e == enter(removed.st, "scopeGet", S, n, Undefined)
            IN e.done /\ e.err = "NotRegistered"
       /\ \A g \in Factories, al \in AnyAliases :
            LET o == register(removed.st, n, "scoped", g, al)
            IN o.err = "none" =>
                 \A S \in scopes :
                   Cached(Container, S, n) =>
                     LET e == enter(o.st, "scopeGet", S, n, Undefined)
                     IN /\ ~e.done
                        /\ Top(e.st).rec = o.st.services[n]
                        /\ e.st.regs[Top(e.st).rec].factory = g
                        /\ \A v \in Values :
                             LET r == resolve(o.st, "scopeGet", S, n, Undefined, "none", v)
                             IN /\ r.err = "none" /\ r.val = v
                                /\ v.id > 0 => r.val # scopedInstances[S][n]

C9_Witness ==
  \E k \in ScopedKeys :
    /\ k # regs[services[k]].name
    /\ \A S \in ScopeIds : Cached(Container, S, regs[services[k]].name)

\* C10: after the remove of a singleton whose instance had been created and a
\* registerSingleton under the same name with factory g, hasInstance is false
\* and the first get calls g and returns what g returned.
C10_FreshAfterReRegistration ==
  \A k \in SingletonKeys :
    regs[services[k]].instance # NOT_CREATED =>
      \A g \in Factories, al \in AnyAliases :
        LET removed == remove(Container, k)
            o == register(removed.st, k, "singleton", g, al)
            e == enter(o.st, "get", NoScope, k, Undefined)
        IN o.err = "none" =>
             /\ removed.val = True
             /\ ~getServiceInfo(o.st, k).hasInstance
             /\ ~e.done
             /\ Top(e.st).rec = o.st.services[k]
             /\ e.st.regs[Top(e.st).rec].factory = g
             /\ \A v \in Values :
                  LET r == resolve(o.st, "get", NoScope, k, Undefined, "none", v)
                  IN r.err = "none" /\ r.val = v /\ getServiceInfo(r.st, k).hasInstance

C10_Witness ==
  \E k \in SingletonKeys :
    /\ regs[services[k]].instance.id > 0
    /\ k = regs[services[k]].name
    /\ Len(regs[services[k]].aliases) > 0
    /\ ~getServiceInfo(register(remove(Container, k).st, k, "singleton", "g", <<>>).st, k).hasInstance

\* the scopes of the scope.get calls in progress, outermost first
ScopeGets(frs) ==
  LET calls == SelectSeq(frs, LAMBDA fr : fr.kind = "scopeGet")
  IN [i \in DOMAIN calls |-> calls[i].sc]
\* s is the end of t
IsSuffix(s, t) ==
  /\ Len(s) <= Len(t)
  /\ \A i \in DOMAIN s : s[i] = t[Len(t) - Len(s) + i]
\* a scope.get is the innermost resolution in progress
InScopeGet == frames # <<>> /\ Top(Container).kind = "scopeGet"

\* C11: when a scope.get call returns or raises, the scope stack is
\* what it was immediately before the call, and the stack is empty whenever
\* no scope.get is in progress.
C11_StackRestored ==
  /\ InScopeGet =>
       \A o \in Outcomes :
         leave(Container, o[1], o[2]).st.scopeStack = Top(Container).before
  /\ \A S \in scopes, k \in Names, o \in Outcomes :
       resolve(Container, "scopeGet", S, k, Undefined, o[1], o[2]).st.scopeStack = scopeStack
  /\ ScopeGets(frames) = <<>> => scopeStack = <<>>

\* What holds of the stack in every reachable state: when a scope.get call
\* returns or raises, the scope stack is what it was immediately before the
\* call, or empty when clear() was called since the call began; clear() is
\* the only call that takes tokens of calls in progress from the stack, and
\* the stack is empty whenever no scope.get is in progress.
StackRestoredUnlessCleared ==
  /\ InScopeGet =>
       /\ scopeStack \in {Append(Top(Container).before, Top(Container).sc), <<>>}
       /\ \A o \in Outcomes :
            leave(Container, o[1], o[2]).st.scopeStack
              = IF scopeStack = <<>> THEN <<>> ELSE Top(Container).before
  /\ (frames # <<>> /\ ~InScopeGet) =>
       \A o \in Outcomes : leave(Container, o[1], o[2]).st.scopeStack = scopeStack
  /\ \A k \in Names, o \in Outcomes :
       /\ \A S \in scopes :
            resolve(Container, "scopeGet", S, k, Undefined, o[1], o[2]).st.scopeStack = scopeStack
       /\ \A kind \in Kinds :
            resolve(Container, kind, NoScope, k, Fallback, o[1], o[2]).st.scopeStack = scopeStack
  /\ ScopeGets(frames) = <<>> => scopeStack = <<>>
  /\ clear(Container).st.scopeStack = <<>>
  /\ \A S \in scopes : dispose(Container, S).st.scopeStack = scopeStack
  /\ \A k \in Names :
       /\ remove(Container, k).st.scopeStack = scopeStack
       /\ \A l \in Lifetimes, f \in Factories, al \in AnyAliases :
            /\ register(Container, k, l, f, al).st.scopeStack = scopeStack
            /\ replace(Container, k, l, f, al).st.scopeStack = scopeStack

C11_Witness ==
  /\ Len(frames) = 2
  /\ InScopeGet
  /\ Top(Container).before # <<>>
  /\ scopeStack = Append(Top(Container).before, Top(Container).sc)

\* C12: the pop at the end of a scope.get call removes exactly the
\* token that the call pushed: while the call is the innermost resolution,
\* its token is the top of the stack, on top of what the stack was before.
C12_PopsOwnToken ==
  InScopeGet => scopeStack = Append(Top(Container).before, Top(Container).sc)

\* What holds of the order of the stack: the stack holds, in the order of the calls, the tokens of
\* the innermost scope.get calls in progress, all of them unless clear() was
\* called; so the pop at the end of a scope.get removes the token that this
\* call pushed, or nothing when clear() has emptied the stack, and never the
\* token of another call. A scope.get that ends without reaching a factory
\* pops what it pushed.
LifoUnlessCleared ==
  /\ IsSuffix(scopeStack, ScopeGets(frames))
  /\ (InScopeGet /\ scopeStack # <<>>) =>
       /\ scopeStack[Len(scopeStack)] = Top(Container).sc
       /\ pop(scopeStack) = Top(Container).before
  /\ \A S \in scopes, k \in Names :
       LET e == enter(Container, "scopeGet", S, k, Undefined)
       IN e.st.scopeStack = IF e.done THEN scopeStack ELSE Append(scopeStack, S)

C12_Witness ==
  /\ Len(frames) = 2
  /\ frames[1].kind = "scopeGet" /\ frames[2].kind = "scopeGet"
  /\ frames[1].sc = frames[2].sc
  /\ scopeStack = <<frames[1].sc, frames[2].sc>>

\* the scope of the innermost scope.get in progress
Innermost == ScopeGets(frames)[Len(ScopeGets(frames))]
\* a resolution of key k through container.get reads and fills the cache of
\* scope A, and no other: an instance that A has is returned, and otherwise
\* the factory is called and what it returns is stored for A
UsesCacheOf(A, k) ==
  LET n == regs[services[k]].name
      e == enter(Container, "get", NoScope, k, Undefined)
  IN /\ IF Cached(Container, A, n)
        THEN e.done /\ e.err = "none" /\ e.val = scopedInstances[A][n]
        ELSE ~e.done /\ Top(e.st).cur = A
     /\ \A o \in Outcomes :
          LET r == resolve(Container, "get", NoScope, k, Undefined, o[1], o[2])
          IN /\ (o[1] = "none" /\ ~Cached(Container, A, n)) =>
                  Cached(r.st, A, n) /\ r.st.scopedInstances[A][n] = o[2]
             /\ \A B \in ScopeIds \ {A} : SameCache(Container, r.st, B)

\* C13: whenever a scope.get is in progress, a scoped resolution
\* through container.get uses the cache of the scope of the innermost such
\* call, and a nested scope.get on B uses the cache of B.
C13_InnermostScope ==
  ScopeGets(frames) # <<>> => \A k \in ScopedKeys : UsesCacheOf(Innermost, k)

\* What holds of the current scope: while the scope stack is not empty, its top is the scope of
\* the innermost scope.get in progress and a scoped resolution through
\* container.get uses the cache of that scope; a scope.get on B makes B the
\* current scope for its resolution; after a clear() during a scope.get the
\* stack is empty and container.get of a scoped registration raises
\* NoActiveScope although the scope.get is still in progress.
InnermostUnlessCleared ==
  /\ scopeStack # <<>> =>
       /\ ScopeGets(frames) # <<>>
       /\ getCurrentScope(scopeStack) = Innermost
       /\ \A k \in ScopedKeys : UsesCacheOf(Innermost, k)
  /\ scopeStack = <<>> =>
       \A k \in ScopedKeys :
         LET e == enter(Container, "get", NoScope, k, Undefined)
         IN e.done /\ e.err = "NoActiveScope"
  /\ \A B \in scopes, k \in ScopedKeys :
       LET e == enter(Container, "scopeGet", B, k, Undefined)
           n == regs[services[k]].name
       IN IF e.done
          THEN e.err = "none" /\ Cached(Container, B, n) /\ e.val = scopedInstances[B][n]
          ELSE Top(e.st).cur = B /\ getCurrentScope(e.st.scopeStack) = B

C13_Witness ==
  /\ Len(frames) = 1
  /\ InScopeGet
  /\ scopeStack = <<Top(Container).sc>>
  /\ \E B \in ScopeIds \ {Top(Container).sc}, k \in ScopedKeys :
       LET n == regs[services[k]].name
       IN /\ n # regs[Top(Container).rec].name
          /\ Cached(Container, B, n)
          /\ ~Cached(Container, Top(Container).sc, n)

\* C14: get(name) of a scoped registration while the scope stack is empty
\* raises NoActiveScope; the factory is not invoked and the table, the
\* singleton slots and the caches of the scopes are as before.
C14_NoActiveScope ==
  scopeStack = <<>> =>
    \A k \in ScopedKeys :
      LET e == enter(Container, "get", NoScope, k, Undefined)
      IN /\ e.done
         /\ e.err = "NoActiveScope"
         /\ e.st = Container
         /\ \A o \in Outcomes :
              LET r == resolve(Container, "get", NoScope, k, Undefined, o[1], o[2])
              IN r.err = "NoActiveScope" /\ r.st = Container

C14_Witness ==
  /\ scopeStack = <<>>
  /\ ScopedKeys # {}
  /\ \E k \in SingletonKeys : regs[services[k]].instance # NOT_CREATED
  /\ \E S \in DOMAIN scopedInstances : DOMAIN scopedInstances[S] # {}

\* the extra arguments that a caller passes to get
ArgLists == {<<>>, <<"x">>, <<"x", "y">>, <<"y", "x">>}
KeysOf(lifetime) == {k \in DOMAIN services : regs[services[k]].lifetime = lifetime}
\* what the caller of a call of this kind receives when the factory returned v
Receives(kind, v) == Received(kind, Result("none", v), Fallback)

\* C15: every get of a transient registration, through the container or a
\* scope, by name or alias, with or without extra arguments, calls the
\* factory once, with no arguments, and returns what it returned; the call
\* leaves the container as it was, so the next get calls the factory again
\* and the call has stored no instance in the cache of a scope; the slot of
\* the record is empty (hasInstance is false).
C15_TransientAlwaysInvokes ==
  \A k \in KeysOf("transient"), c \in Calls, args \in ArgLists :
    LET e == enterWith(Container, c[1], c[2], k, Fallback, args)
    IN /\ ~e.done
       /\ Len(e.st.frames) = Len(frames) + 1
       /\ Top(e.st).rec = services[k]
       /\ Top(e.st).args = <<>>
       /\ e.st.regs = regs /\ e.st.scopedInstances = scopedInstances
       /\ \A v \in Values :
            LET r == leave(e.st, "none", v)
            IN /\ r.err = "none"
               /\ r.val = Receives(c[1], v).val
               /\ c[1] \in {"get", "scopeGet"} => r.val = v
               /\ r.st = Container
       /\ regs[services[k]].instance = NOT_CREATED
       /\ ~getServiceInfo(Container, k).hasInstance

C15_Witness ==
  /\ frames # <<>>
  /\ regs[Top(Container).rec].lifetime = "transient"
  /\ Top(Container).rec \in Range(services)
  /\ Top(Container).kind = "scopeGet"
  /\ Cardinality(KeysOf("transient")) = 2

\* C16: get(name, a, b) on a registration of the factory lifetime calls the
\* factory once with exactly a, b in that order and returns what it
\* returned; the call leaves the container as it was, so every call calls the
\* factory again and nothing is cached; for the three other lifetimes the
\* factory is called with no arguments whatever extra arguments get receives.
C16_FactoryArguments ==
  \A k \in DOMAIN services, c \in Calls, args \in ArgLists :
    LET e == enterWith(Container, c[1], c[2], k, Fallback, args)
        lifetime == regs[services[k]].lifetime
    IN IF lifetime = "factory"
       THEN /\ ~e.done
            /\ Len(e.st.frames) = Len(frames) + 1
            /\ Top(e.st).rec = services[k]
            /\ Top(e.st).args = args
            /\ \A v \in Values :
                 LET r == leave(e.st, "none", v)
                 IN /\ r.err = "none"
                    /\ r.val = Receives(c[1], v).val
                    /\ c[1] \in {"get", "scopeGet"} => r.val = v
                    /\ r.st = Container
            /\ ~getServiceInfo(Container, k).hasInstance
       ELSE ~e.done => Top(e.st).args = <<>>

C16_Witness ==
  /\ frames # <<>>
  /\ regs[Top(Container).rec].lifetime = "factory"
  /\ Top(Container).args = <<"x", "y">>

\* the keys of singletons whose instance exists
CreatedKeys == {k \in KeysOf("singleton") : regs[services[k]].instance # NOT_CREATED}

\* C17: replace(name, lifetime, g, aliases) leaves the registry in the state
\* in which remove(name) followed by register(name, lifetime, g, aliases)
\* leaves it, and ends as that register ends; after the replacement of a
\* singleton whose instance existed by a transient registration, every get
\* of the name calls g and returns what g returned, never the old instance.
C17_ReplaceIsRemoveThenRegister ==
  \A name \in Names, lifetime \in Lifetimes, g \in Factories, aliases \in AnyAliases :
    LET p == replace(Container, name, lifetime, g, aliases)
        removed == remove(Container, name)
        q == register(removed.st, name, lifetime, g, aliases)
    IN /\ p.st = q.st
       /\ p.err = q.err
       /\ (name \in CreatedKeys /\ lifetime = "transient" /\ p.err = "none") =>
            \A c \in Calls, args \in ArgLists :
              LET e == enterWith(p.st, c[1], c[2], name, Fallback, args)
                  old == regs[services[name]].instance
              IN /\ ~e.done
                 /\ e.st.regs[Top(e.st).rec].factory = g
                 /\ Top(e.st).rec = p.st.services[name]
                 /\ \A v \in Values :
                      LET r == leave(e.st, "none", v)
                      IN /\ r.val = Receives(c[1], v).val
                         /\ r.val # old
                         /\ r.st = p.st

\* a singleton with an alias whose instance exists, which replace turns into
\* a transient registration
C17_Witness ==
  \E name \in CreatedKeys :
    /\ regs[services[name]].name = name
    /\ regs[services[name]].aliases # <<>>
    /\ LET p == replace(Container, name, "transient", "g", <<>>)
       IN p.err = "none" /\ p.st.regs[p.st.services[name]].lifetime = "transient"

\* the registration of key k is one that a register call installed whole:
\* its name and its aliases are different keys that all resolve it
Installed(k) ==
  LET registration == regs[services[k]]
  IN /\ registration.name \notin Range(registration.aliases)
     /\ \A a \in {registration.name} \cup Range(registration.aliases) :
          a \in DOMAIN services /\ services[a] = services[k]

\* C18: after a successful replace(name, lifetime, g, newAliases), has(a) is
\* false for every alias a of the replaced registration that is not in
\* newAliases, and has is true for name and for every alias in newAliases,
\* which all resolve the new registration. (Stated for registrations that
\* were installed whole.)
C18_Original ==
  \A name \in DOMAIN services, lifetime \in Lifetimes, g \in Factories, newAliases \in AnyAliases :
    LET p == replace(Container, name, lifetime, g, newAliases)
        replaced == regs[services[name]]
    IN (p.err = "none" /\ Installed(name)) =>
         /\ \A a \in Range(replaced.aliases) \ Range(newAliases) : ~has(p.st, a)
         /\ \A k \in {name} \cup Range(newAliases) :
              /\ has(p.st, k)
              /\ p.st.services[k] = p.st.services[name]
         /\ p.st.regs[p.st.services[name]] = NewRegistration(name, lifetime, g, newAliases)

\* C18, amended: after a successful replace(name, lifetime, g, newAliases),
\* has(a) is false for every alias a of the replaced registration that is
\* neither name itself nor in newAliases, and has is true for name and for
\* every alias in newAliases, which all resolve the new registration.
C18_OldAliasesDropped ==
  \A name \in DOMAIN services, lifetime \in Lifetimes, g \in Factories, newAliases \in AnyAliases :
    LET p == replace(Container, name, lifetime, g, newAliases)
        replaced == regs[services[name]]
    IN p.err = "none" =>
         /\ \A a \in Range(replaced.aliases) \ (Range(newAliases) \cup {name}) : ~has(p.st, a)
         /\ \A k \in {name} \cup Range(newAliases) :
              /\ has(p.st, k)
              /\ p.st.services[k] = p.st.services[name]
         /\ p.st.regs[p.st.services[name]] = NewRegistration(name, lifetime, g, newAliases)

\* a registration with an alias that a successful replace does not name again
C18_Witness ==
  \E name \in DOMAIN services :
    /\ regs[services[name]].name = name
    /\ \E a \in Range(regs[services[name]].aliases) :
         /\ a # name
         /\ has(Container, a)
         /\ replace(Container, name, "singleton", "g", <<>>).err = "none"
         /\ ~has(replace(Container, name, "singleton", "g", <<>>).st, a)

\* C19: after clear(), has(k) is false for every name and alias, no scope
\* has a cache entry and the scope stack is empty, also once the
\* resolutions that were in progress have ended; get on a scope created
\* before clear() raises NotRegistered, changing nothing, until the name is
\* registered again, and then it resolves the new registration.
C19_ClearEmptiesAll ==
  LET D == clear(Container).st
  IN /\ \A k \in Names : ~has(D, k)
     /\ D.services = EmptyMap
     /\ \A S \in ScopeIds, n \in Names : ~Cached(D, S, n)
     /\ D.scopeStack = <<>>
     /\ D.scopes = scopes
     /\ \A S \in scopes, k \in Names, o \in Outcomes :
          LET r == resolve(D, "scopeGet", S, k, Undefined, o[1], o[2])
          IN r.err = "NotRegistered" /\ r.st = D
     /\ frames # <<>> =>
          \A o \in Outcomes :
            LET E == leave(D, o[1], o[2]).st
            IN /\ E.services = EmptyMap
               /\ E.scopeStack = <<>>
               /\ \A S \in ScopeIds, n \in Names : ~Cached(E, S, n)
     /\ \A S \in scopes, k \in Names, l \in Lifetimes, f \in Factories :
          LET R == register(D, k, l, f, <<>>).st
              e == enter(R, "scopeGet", S, k, Undefined)
          IN /\ ~e.done
             /\ Top(e.st).rec = R.services[k]
             /\ R.regs[R.services[k]] = NewRegistration(k, l, f, <<>>)

C19_Witness ==
  /\ frames # <<>>
  /\ scopeStack # <<>>
  /\ Cardinality(DOMAIN services) > 1
  /\ scopes = ScopeIds
  /\ \A S \in scopes : \E n \in Names : Cached(Container, S, n)

\* part is a piece of the text msg
Contains(msg, part) ==
  \E i \in 0..(Len(msg) - Len(part)) : SubSeq(msg, i + 1, i + Len(part)) = part
\* the text of what was thrown: the message of an Error, the string of
\* another value
TextOf(error) == IF error.t = "Error" THEN error.message ELSE String(error).text

\* C20: when the factory of a registration of any lifetime throws during a
\* get on the container or on a scope, by name or by alias, get raises a
\* FactoryFailure whose message contains the primary name of the
\* registration and the message of the Error thrown, or the string of the
\* value thrown when it is not an Error.
C20_FactoryFailureMessage ==
  \A k \in DOMAIN services, c \in Calls, args \in ArgLists, error \in Thrown :
    LET e == enterWith(Container, c[1], c[2], k, Fallback, args)
    IN (c[1] \in {"get", "scopeGet"} /\ ~e.done) =>
         LET r == leaveThrown(e.st, error)
         IN /\ r.err = "FactoryFailure"
            /\ r.val.t = "Error"
            /\ Contains(r.val.message, <<regs[services[k]].name>>)
            /\ Contains(r.val.message, TextOf(error))

\* What holds of the error that get raises: for an Error and for every value
\* that String() converts, it is a FactoryFailure whose message is the fixed
\* text with the primary name followed by the text of what was thrown; for
\* a value whose conversion throws it is that TypeError, which does not name
\* the registration.
WrappedUnlessUnprintable ==
  \A k \in DOMAIN services, c \in Calls, args \in ArgLists, error \in Thrown :
    LET e == enterWith(Container, c[1], c[2], k, Fallback, args)
    IN (c[1] \in {"get", "scopeGet"} /\ ~e.done) =>
         LET r == leaveThrown(e.st, error)
         IN IF error = BareObject
            THEN r.err = "TypeError" /\ r.val = TypeError
            ELSE /\ r.err = "FactoryFailure"
                 /\ r.val = Err(<<Before, regs[services[k]].name, After>> \o TextOf(error))

\* a factory reached through an alias, by a get on a scope, is running
C20_Witness ==
  /\ frames # <<>>
  /\ Top(Container).kind = "scopeGet"
  /\ \E k \in DOMAIN services :
       /\ services[k] = Top(Container).rec
       /\ regs[services[k]].name # k
       /\ leaveThrown(Container, Err(<<"boom">>)).err = "FactoryFailure"

\* what a factory does when it is called: it returns a value or throws one
Ends == {<<"return", v>> : v \in Values} \cup {<<"throw", error>> : error \in Thrown}
\* the end of the innermost resolution in progress after that
finish(C, end) == IF end[1] = "return" THEN leave(C, "none", end[2]) ELSE leaveThrown(C, end[2])
\* the whole call of this kind on the container
call(C, kind, key, dflt, args, end) ==
  LET e == enterWith(C, kind, NoScope, key, dflt, args)
  IN IF e.done THEN Out(e.st, e.err, e.val) ELSE finish(e.st, end)

\* C21: tryGet(name, ...args) never raises. It returns undefined when name
\* is not a key, when a scoped registration is resolved with no active
\* scope and when the factory throws; in every other case it returns what
\* get(name, ...args) returns in the same state, and it leaves the
\* container in the state in which get leaves it.
C21_TryGetNeverRaises ==
  \A k \in Names, args \in ArgLists, end \in Ends :
    LET t == call(Container, "tryGet", k, Fallback, args, end)
        g == call(Container, "get", k, Fallback, args, end)
    IN /\ t.err = "none"
       /\ t.st = g.st
       /\ IF g.err = "none" THEN t.val = g.val ELSE t.val = Undefined
       /\ ~has(Container, k) => t.val = Undefined /\ g.err = "NotRegistered"
       /\ (k \in ScopedKeys /\ scopeStack = <<>>) =>
            t.val = Undefined /\ g.err = "NoActiveScope"

\* a singleton without instance, a singleton with one and a scoped
\* registration outside every scope
C21_Witness ==
  /\ scopeStack = <<>>
  /\ ScopedKeys # {}
  /\ \E k \in SingletonKeys : regs[services[k]].instance # NOT_CREATED
  /\ DOMAIN services # Names

\* C22: getOrDefault(name, fallback, ...args) never raises; it returns
\* fallback exactly when tryGet(name, ...args) yields an absent result, that
\* is when the name is not a key, the resolution failed or the factory
\* returned an absent-equivalent value (undefined, null, 0, empty string),
\* and otherwise the resolved value.
C22_Original ==
  \A k \in Names, args \in ArgLists, end \in Ends :
    LET d == call(Container, "getOrDefault", k, Fallback, args, end)
        t == call(Container, "tryGet", k, Fallback, args, end)
    IN /\ d.err = "none"
       /\ d.val = IF t.val \in AbsentLike THEN Fallback ELSE t.val

\* C22, amended: getOrDefault(name, fallback, ...args) never raises; it
\* returns fallback exactly when tryGet(name, ...args) yields undefined, that
\* is when the name is not a key, the resolution failed or the factory
\* returned undefined, and otherwise the resolved value, also when that
\* value is null, 0 or the empty string; it leaves the container in the state
\* in which tryGet leaves it.
C22_FallbackForUndefined ==
  \A k \in Names, args \in ArgLists, end \in Ends :
    LET d == call(Container, "getOrDefault", k, Fallback, args, end)
        t == call(Container, "tryGet", k, Fallback, args, end)
        g == call(Container, "get", k, Fallback, args, end)
    IN /\ d.err = "none"
       /\ d.st = t.st
       /\ d.val = IF t.val = Undefined THEN Fallback ELSE t.val
       /\ (g.err # "none" \/ g.val = Undefined) <=> d.val = Fallback
       /\ (g.err = "none" /\ g.val \in AbsentLike \ {Undefined}) => d.val = g.val

\* a singleton whose instance is undefined and a name that is not a key
C22_Witness ==
  /\ \E k \in SingletonKeys : regs[services[k]].instance = Undefined
  /\ \E k \in SingletonKeys : regs[services[k]].instance \notin AbsentLike \cup {NOT_CREATED}
  /\ DOMAIN services # Names

\* C23: after scope.dispose() the scope holds no cached instance, also once
\* a resolution that was in progress in it has ended, and it stays usable:
\* its next get of a scoped registration calls the factory and caches what it
\* returns in that scope. dispose leaves the scope stack, the table, the
\* records with their singleton slots and the caches of the other scopes as
\* they were, whether or not the scope is on the stack.
C23_DisposeEmptiesScope ==
  \A S \in scopes :
    LET D == dispose(Container, S).st
    IN /\ \A n \in Names : ~Cached(D, S, n)
       /\ D.scopeStack = scopeStack
       /\ D.services = services
       /\ D.regs = regs
       /\ D.scopes = scopes
       /\ \A B \in ScopeIds \ {S} : SameCache(Container, D, B)
       /\ frames # <<>> =>
            \A end \in Ends : \A n \in Names :
              Cached(finish(D, end).st, S, n) => Top(D).cur # S
       /\ \A k \in ScopedKeys, v \in Values :
            LET e == enter(D, "scopeGet", S, k, Undefined)
                r == leave(e.st, "none", v)
            IN /\ ~e.done
               /\ Top(e.st).cur = S
               /\ r.val = v
               /\ Cached(r.st, S, regs[services[k]].name)
               /\ r.st.scopedInstances[S][regs[services[k]].name] = v

\* a scope that has an instance and is on the stack
C23_Witness ==
  \E S \in scopes :
    /\ \E n \in Names : Cached(Container, S, n)
    /\ \E i \in DOMAIN scopeStack : scopeStack[i] = S
    /\ ScopedKeys # {}

\* C24: remove(k) for a k that is not a key of the table returns false and
\* changes nothing: the table, the singleton slots, the caches of the scopes
\* and the scope stack are as before the call.
C24_RemoveUnknown ==
  \A k \in Names \ DOMAIN services :
    LET r == remove(Container, k)
    IN r.err = "none" /\ r.val = False /\ r.st = Container

\* a name that is not a key although a scope has an instance under it
C24_Witness ==
  \E k \in Names \ DOMAIN services :
    /\ \E S \in scopes : Cached(Container, S, k)
    /\ DOMAIN services # {}

\* the items of a list are different from each other
EachOnce(list) == Cardinality(Range(list)) = Len(list)
\* the registrations that the table reaches
Reachable == Range(services)
\* every record that the table reaches was installed whole by its register
AllInstalled == \A k \in DOMAIN services : Installed(k)

\* C25: in every reachable state getRegisteredServices() returns the keys of
\* the table, each once: a name k is in the result if and only if has(k).
C25_RegisteredServicesAreKeys ==
  \A keys \in Entries(Container) :
    LET result == getRegisteredServices(Container, keys)
    IN /\ EachOnce(result)
       /\ \A k \in Names : (k \in Range(result)) <=> has(Container, k)

\* What holds of getRegisteredServices(): each name is listed once, every
\* key of a record that was installed whole is listed, and the result is the
\* set of keys when every record was installed whole.
RegisteredServicesUnlessPartial ==
  \A keys \in Entries(Container) :
    LET result == getRegisteredServices(Container, keys)
    IN /\ EachOnce(result)
       /\ AllInstalled => Range(result) = DOMAIN services

\* a record whose alias list names a key that is not in the table
C25_Witness ==
  \E k \in DOMAIN services : \E a \in Range(regs[services[k]].aliases) : ~has(Container, a)

\* C26: in every reachable state getAllServiceInfo() has exactly one entry
\* for each registration that the table reaches, however many aliases it
\* has, and leaves no such registration out.
C26_OneInfoPerRegistration ==
  \A keys \in Entries(Container) :
    LET result == getAllServiceInfo(Container, keys)
    IN /\ Len(result) = Cardinality(Reachable)
       /\ \A id \in Reachable :
            Cardinality({i \in DOMAIN result : result[i] = Info(regs[id])}) = 1

\* What holds of getAllServiceInfo(): it has exactly one entry for each
\* primary name of a registration that the table reaches, the info of one
\* of the registrations of that name.
OneInfoPerName ==
  \A keys \in Entries(Container) :
    LET result == getAllServiceInfo(Container, keys)
        names == {regs[id].name : id \in Reachable}
    IN /\ Len(result) = Cardinality(names)
       /\ \A n \in names : \E i \in DOMAIN result : result[i].name = n
       /\ \A i \in DOMAIN result : \E id \in Reachable : result[i] = Info(regs[id])

\* two registrations with the same primary name that the table reaches
C26_Witness ==
  \E id \in Reachable : \E other \in Reachable \ {id} : regs[id].name = regs[other].name

\* C30: getServicesByLifetime(L) returns, each once, the primary names of
\* the registrations of lifetime L that the table reaches, no alias and no
\* name of another lifetime: a returned name that is a key is the primary
\* name of the registration it resolves, and that registration has lifetime
\* L; the result is empty when no registration has lifetime L.
C30_ServicesByLifetime ==
  \A keys \in Entries(Container), L \in Lifetimes :
    LET result == getServicesByLifetime(Container, L, keys)
    IN /\ EachOnce(result)
       /\ Range(result) = {regs[id].name : id \in {r \in Reachable : regs[r].lifetime = L}}
       /\ \A n \in Range(result) :
            has(Container, n) => regs[services[n]].name = n /\ regs[services[n]].lifetime = L

\* What holds of getServicesByLifetime(L): it returns, each once, the
\* primary names of the registrations of lifetime L that the table reaches.
ServicesByLifetimeNames ==
  \A keys \in Entries(Container), L \in Lifetimes :
    LET result == getServicesByLifetime(Container, L, keys)
    IN /\ EachOnce(result)
       /\ Range(result) = {regs[id].name : id \in {r \in Reachable : regs[r].lifetime = L}}
       /\ AllInstalled =>
            \A n \in Range(result) :
              has(Container, n) /\ regs[services[n]].name = n /\ regs[services[n]].lifetime = L

\* registrations of two lifetimes, one of them with an alias
C30_Witness ==
  /\ \E k \in SingletonKeys : regs[services[k]].name # k
  /\ ScopedKeys # {}

\* C27: getServiceInfo(k) returns undefined when k is not a key; for a
\* primary name and for an alias alike it returns the primary name, the
\* lifetime and the alias list of the registration. hasInstance is true
\* exactly when the lifetime is singleton and the factory has returned a
\* value: it is false for a new registration, a resolution whose factory
\* returns makes it true for a singleton, one whose factory throws leaves it
\* as it was, and it stays false for the three other lifetimes.
C27_ServiceInfo ==
  /\ \A k \in Names \ DOMAIN services : getServiceInfo(Container, k) = NoInfo
  /\ \A k \in DOMAIN services :
       LET registration == regs[services[k]]
           info == getServiceInfo(Container, k)
       IN /\ info.name = registration.name
          /\ info.lifetime = registration.lifetime
          /\ info.aliases = registration.aliases
          /\ \A a \in DOMAIN services : services[a] = services[k] => getServiceInfo(Container, a) = info
          /\ info.hasInstance => registration.lifetime = "singleton" /\ services[k] \in invoked
          /\ \A c \in Calls, args \in ArgLists, end \in Ends :
               LET e == enterWith(Container, c[1], c[2], k, Fallback, args)
                   after == IF e.done THEN e.st ELSE finish(e.st, end).st
                   now == getServiceInfo(after, k).hasInstance
               IN IF registration.lifetime # "singleton" THEN ~now
                  ELSE now <=> (info.hasInstance \/ (~e.done /\ end[1] = "return"))
  /\ \A k \in Names, l \in Lifetimes, f \in Factories, al \in AnyAliases :
       LET p == register(Container, k, l, f, al)
       IN p.err = "none" => ~getServiceInfo(p.st, k).hasInstance

\* a singleton with an alias whose instance exists
C27_Witness ==
  \E k \in CreatedKeys :
    /\ regs[services[k]].name # k
    /\ getServiceInfo(Container, k).hasInstance

\* C28: get(name) for a name that is not a key of the table raises
\* NotRegistered, calls no factory and leaves the table, the singleton
\* slots, the caches of the scopes and the scope stack as they were; so does
\* scope.get, whose push is undone.
C28_NotRegistered ==
  \A k \in Names \ DOMAIN services, c \in Calls, args \in ArgLists :
    c[1] \in {"get", "scopeGet"} =>
      LET e == enterWith(Container, c[1], c[2], k, Fallback, args)
      IN /\ e.done
         /\ e.err = "NotRegistered"
         /\ e.st = Container
         /\ \A end \in Ends :
              LET r == IF e.done THEN Out(e.st, e.err, e.val) ELSE finish(e.st, end)
              IN r.err = "NotRegistered" /\ r.st = Container

\* a name that is not a key, in a state with scopes, instances and a scope
\* on the stack
C28_Witness ==
  /\ DOMAIN services # Names
  /\ DOMAIN services # {}
  /\ scopeStack # <<>>
  /\ scopes = ScopeIds
  /\ \E S \in scopes : \E n \in Names : Cached(Container, S, n)

\* the records whose factories are running, outermost first
Running(C) == [j \in DOMAIN C.frames |-> C.frames[j].rec]

\* C29: registration is lazy. No register and no replace calls a factory:
\* after it the same factories are running as before, no singleton has been
\* invoked that had not been, and the new registration has not been invoked
\* and has an empty slot. Neither do remove, clear, createScope and dispose.
\* A get, tryGet, getOrDefault or scope.get calls no factory or the factory
\* of the registration that its key resolves, once.
C29_LazyRegistration ==
  /\ \A name \in Names, l \in Lifetimes, f \in Factories, al \in AnyAliases :
       LET p == register(Container, name, l, f, al)
           q == replace(Container, name, l, f, al)
       IN /\ Running(p.st) = Running(Container)
          /\ p.st.invoked = invoked
          /\ p.err # "DuplicateName" =>
               /\ p.st.services[name] \notin p.st.invoked
               /\ p.st.regs[p.st.services[name]].instance = NOT_CREATED
          /\ Running(q.st) = Running(Container)
          /\ q.st.invoked \subseteq invoked
          /\ q.st.services[name] \notin q.st.invoked
          /\ q.st.regs[q.st.services[name]].instance = NOT_CREATED
  /\ \A name \in Names :
       /\ Running(remove(Container, name).st) = Running(Container)
       /\ remove(Container, name).st.invoked \subseteq invoked
  /\ Running(clear(Container).st) = Running(Container)
  /\ clear(Container).st.invoked \subseteq invoked
  /\ \A S \in ScopeIds :
       /\ Running(createScope(Container, S).st) = Running(Container)
       /\ createScope(Container, S).st.invoked = invoked
       /\ Running(dispose(Container, S).st) = Running(Container)
       /\ dispose(Container, S).st.invoked = invoked
  /\ \A k \in Names, c \in Calls, args \in ArgLists :
       LET e == enterWith(Container, c[1], c[2], k, Fallback, args)
       IN IF e.done
          THEN Running(e.st) = Running(Container) /\ e.st.invoked = invoked
          ELSE /\ has(Container, k)
               /\ Running(e.st) = Append(Running(Container), services[k])
               /\ e.st.invoked \subseteq invoked \cup {services[k]}

\* a singleton whose factory was called and a name that is free, while a
\* factory is running
C29_Witness ==
  /\ invoked # {}
  /\ frames # <<>>
  /\ DOMAIN services # Names
  /\ \E k \in SingletonKeys : services[k] \notin invoked

\* C31: scope.has(name) equals container.has(name) in every state, whatever
\* the scope has cached, whether or not it was disposed and whatever the
\* scope stack is: it is the same before and after a dispose of the scope
\* and for every scope.
C31_ScopeHasIsHas ==
  \A S \in scopes, k \in Names :
    /\ scopeHas(Container, S, k) = has(Container, k)
    /\ scopeHas(dispose(Container, S).st, S, k) = has(Container, k)
    /\ \A B \in scopes : scopeHas(Container, B, k) = scopeHas(Container, S, k)

\* a scope on the stack that has cached one key and not another, and a scope
\* that has no cache
C31_Witness ==
  /\ scopeStack # <<>>
  /\ \E S \in scopes :
       /\ \E k \in DOMAIN services : Cached(Container, S, k)
       /\ \E k \in DOMAIN services : ~Cached(Container, S, k)
  /\ \E S \in scopes : S \notin DOMAIN scopedInstances

\* C32: a failed construction is not cached. When the factory throws during
\* a get of a singleton, on the container or on a scope, the slot of the
\* record stays NOT_CREATED (hasInstance false) and the next get calls the
\* factory again; when it throws during a get of a scoped registration, the
\* cache of the current scope gets no entry for the name and the next get in
\* that scope calls the factory again.
C32_FailureNotCached ==
  \A k \in KeysOf("singleton") \cup KeysOf("scoped"), c \in Calls, args \in ArgLists :
    LET e == enterWith(Container, c[1], c[2], k, Fallback, args)
        id == services[k]
    IN (c[1] \in {"get", "scopeGet"} /\ ~e.done) =>
         \A error \in Thrown :
           LET r == leaveThrown(e.st, error)
               again == enterWith(r.st, c[1], c[2], k, Fallback, args)
           IN /\ r.err # "none"
              /\ r.st.services = services
              /\ r.st.regs = regs
              /\ r.st.regs[id].instance = NOT_CREATED
              /\ ~getServiceInfo(r.st, k).hasInstance
              /\ \A S \in ScopeIds : ~Cached(r.st, S, regs[id].name)
                                      \/ Cached(Container, S, regs[id].name)
              /\ ~Cached(r.st, Top(e.st).cur, regs[id].name)
              /\ ~again.done
              /\ Top(again.st).rec = id

\* the factory of a singleton reached through a scope is running, and a
\* scoped registration has no instance in a scope that is current
C32_Witness ==
  \/ /\ frames # <<>>
     /\ regs[Top(Container).rec].lifetime = "singleton"
     /\ Top(Container).kind = "scopeGet"
     /\ leaveThrown(Container, Err(<<"boom">>)).err # "none"
  \/ /\ frames # <<>>
     /\ regs[Top(Container).rec].lifetime = "scoped"
     /\ Top(Container).mapLive
     /\ leaveThrown(Container, Str(<<"text">>)).err # "none"

\* the registry when no register and no replace call raises: the calls of
\* Api(P) without those of register and replace that end with an error
Whole(P) ==
  \/ \E n \in P.primaries, l \in P.lifetimes, f \in P.factories, al \in P.aliases :
       /\ register(Container, n, l, f, al).err = "none"
       /\ Register(n, l, f, al)
  \/ \E n \in P.names : Remove(n)
  \/ \E n \in P.primaries, l \in P.tags, f \in P.factories, al \in P.aliases :
       /\ replace(Container, n, l, f, al).err = "none"
       /\ Replace(n, l, f, al)
  \/ Clear
  \/ CreateScope(P.scopes)
  \/ \E s \in P.scopes : Dispose(s)
  \/ \E n \in P.names, k \in P.kinds, a \in P.args :
       Resolve(k, NoScope, n, Fallback, a, P.returns, P.throws, P.circular)
  \/ \E n \in P.names, s \in P.scopes, a \in P.args :
       Resolve("scopeGet", s, n, Undefined, a, P.returns, P.throws, P.circular)

SpecWhole == Init /\ [][Whole(Table)]_vars

\* the keys under which registration id was registered
KeysFor(C, id) == {C.regs[id].name} \cup Range(C.regs[id].aliases)

\* C33: in every reachable state the primary name and every alias in the
\* alias list of every registration that the table reaches is a key of the
\* table that maps to that registration.
C33_AliasesAreKeys ==
  \A id \in Reachable : \A a \in KeysFor(Container, id) :
    a \in DOMAIN services /\ services[a] = id

\* a registration with an alias whose keys all map to it
C33_Witness ==
  \E id \in Reachable :
    /\ regs[id].aliases # <<>>
    /\ \A a \in KeysFor(Container, id) : a \in DOMAIN services /\ services[a] = id

\* C34: remove(k) deletes only keys that map to the registration k resolves
\* to: every other registration that was resolvable under its primary name
\* and its aliases stays so, with its singleton instance and the entries of
\* every scope's cache under its name untouched.
C34_RemoveOnlyOwnKeys ==
  \A k \in DOMAIN services :
    LET id == services[k]
        r == remove(Container, k)
    IN /\ \A n \in DOMAIN services :
            services[n] # id => n \in DOMAIN r.st.services /\ r.st.services[n] = services[n]
       /\ \A other \in Reachable \ {id} :
            /\ other \in DOMAIN r.st.regs
            /\ r.st.regs[other] = regs[other]
            /\ \A S \in DOMAIN scopedInstances :
                 regs[other].name \in DOMAIN scopedInstances[S] =>
                   /\ regs[other].name \in DOMAIN r.st.scopedInstances[S]
                   /\ r.st.scopedInstances[S][regs[other].name] = scopedInstances[S][regs[other].name]

\* two registrations, one with an instance or an entry in a scope's cache
C34_Witness ==
  \E id \in Reachable : \E other \in Reachable \ {id} :
    \/ regs[other].instance # NOT_CREATED
    \/ \E S \in DOMAIN scopedInstances : regs[other].name \in DOMAIN scopedInstances[S]

\* C36: in every reachable state no two distinct registrations that the
\* table reaches have the same primary name.
C36_PrimaryNamesDiffer ==
  \A id \in Reachable : \A other \in Reachable \ {id} : regs[id].name # regs[other].name

\* two registrations that the table reaches
C36_Witness == Cardinality(Reachable) = 2

\* What holds as long as no register and no replace call has raised: every
\* record was installed whole, every key list is in the table, remove
\* deletes the keys of one registration only, and primary names differ.
WholeRegistry ==
  /\ AllInstalled
  /\ C33_AliasesAreKeys
  /\ C34_RemoveOnlyOwnKeys
  /\ C36_PrimaryNamesDiffer

\* C35: in every reachable state every entry of every scope's cache is
\* keyed by the primary name of a registration that is in the table with
\* lifetime scoped; no entry survives the removal, the replacement or the
\* clearing of its registration, also when remove, replace, clear or dispose
\* is called from inside a factory that is being resolved.
C35_ScopeCacheKeyed ==
  \A S \in DOMAIN scopedInstances : \A n \in DOMAIN scopedInstances[S] :
    /\ n \in DOMAIN services
    /\ regs[services[n]].name = n
    /\ regs[services[n]].lifetime = "scoped"

\* a scope's cache has an entry
C35_Witness ==
  \E S \in DOMAIN scopedInstances : DOMAIN scopedInstances[S] # {}

\* What holds of the caches when a factory ends after clear or after the
\* dispose of its scope: the Map it writes into is no cache any more, and
\* the caches stay as they are.
NoWriteAfterDetach ==
  \A end \in Ends :
    (frames # <<>> /\ ~Top(Container).mapLive) =>
      finish(Container, end).st.scopedInstances = scopedInstances

\* replace(name, lifetime, g, aliases) names an alias that is a key of
\* another registration than the one of name
Collides(name, aliases) ==
  /\ name \in DOMAIN services
  /\ Installed(name)
  /\ \E a \in Range(aliases) : a \in DOMAIN services /\ services[a] # services[name]

\* C37: if replace(name, lifetime, g, aliases) raises because one of the new
\* aliases is a key of another registration, the registry is in the state
\* it had before the call: name resolves to the previous registration with
\* its previous aliases and its cached instance.
C37_ReplaceAllOrNothing ==
  \A name \in Names, lifetime \in Lifetimes, aliases \in AnyAliases :
    LET p == replace(Container, name, lifetime, "g", aliases)
    IN (Collides(name, aliases) /\ p.err # "none") =>
         /\ p.st.services = services
         /\ p.st.regs = regs
         /\ p.st.scopedInstances = scopedInstances

\* a registration with an alias and an instance, and a key of another one
C37_Witness ==
  \E name \in CreatedKeys :
    /\ regs[services[name]].aliases # <<>>
    /\ Collides(name, <<"c">>)
    /\ replace(Container, name, "singleton", "g", <<"c">>).err = "DuplicateAlias"

\* What holds of a replace that raises: the previous registration is out of
\* the table under its name and all its aliases, its instance is lost, and
\* name resolves to the new record, which was never resolved.
ReplaceRaisedIsNotUndone ==
  \A name \in Names, lifetime \in Lifetimes, aliases \in AnyAliases :
    LET p == replace(Container, name, lifetime, "g", aliases)
    IN (Collides(name, aliases) /\ p.err # "none") =>
         /\ p.err = "DuplicateAlias"
         /\ name \in DOMAIN p.st.services
         /\ p.st.regs[p.st.services[name]].lifetime = lifetime
         /\ p.st.regs[p.st.services[name]].aliases = aliases
         /\ p.st.regs[p.st.services[name]].instance = NOT_CREATED
         /\ \A a \in KeysFor(Container, services[name]) \ (Range(aliases) \cup {name}) :
              a \notin DOMAIN p.st.services

\* the keys of the registrations that no scope caches
Unscoped == KeysOf("singleton") \cup KeysOf("transient") \cup KeysOf("factory")

\* a whole call, on the container (kind get) or on scope sc (kind scopeGet),
\* whose factory ends with end if it is reached
whole(C, kind, sc, key, args, end) ==
  LET e == enterWith(C, kind, sc, key, Undefined, args)
  IN IF e.done THEN Out(e.st, e.err, e.val) ELSE finish(e.st, end)

\* while the factory of key runs, reached through scope S or through the
\* container, the current scope is the same
SameWhileRunning(S, key, args) ==
  LET s == enterWith(Container, "scopeGet", S, key, Undefined, args)
      g == enterWith(Container, "get", NoScope, key, Undefined, args)
  IN ~s.done => getCurrentScope(s.st.scopeStack) = getCurrentScope(g.st.scopeStack)

\* C39 as stated: scope.get(name, ...args) on a singleton, transient or
\* factory registration behaves exactly as container.get(name, ...args),
\* also while the factory runs.
C39_Original ==
  \A k \in Unscoped, S \in scopes, args \in ArgLists :
    /\ \A end \in Ends :
         LET s == whole(Container, "scopeGet", S, k, args, end)
             g == whole(Container, "get", NoScope, k, args, end)
         IN s.err = g.err /\ s.val = g.val /\ s.st = g.st
    /\ SameWhileRunning(S, k, args)

\* C39: scope.get(name, ...args) on a singleton, transient or factory
\* registration reaches the factory when container.get(name, ...args) does,
\* with the same arguments, returns or raises what it does and leaves the
\* container in the same state; the call stores nothing in a scope's cache;
\* a singleton instance is one and the same for the container and for all
\* scopes, and disposing the scope does not reset it. What differs is the
\* current scope while the factory runs: it is the scope of the call.
C39_ScopeGetAsGet ==
  \A k \in Unscoped, S \in scopes, args \in ArgLists :
    LET es == enterWith(Container, "scopeGet", S, k, Undefined, args)
        eg == enterWith(Container, "get", NoScope, k, Undefined, args)
    IN /\ es.done = eg.done
       /\ ~es.done =>
            /\ Top(es.st).rec = Top(eg.st).rec
            /\ Top(es.st).args = Top(eg.st).args
            /\ getCurrentScope(es.st.scopeStack) = S
       /\ \A end \in Ends :
            LET s == whole(Container, "scopeGet", S, k, args, end)
                g == whole(Container, "get", NoScope, k, args, end)
                id == services[k]
                D == dispose(s.st, S).st
            IN /\ s.err = g.err /\ s.val = g.val /\ s.st = g.st
               /\ s.st.scopedInstances = scopedInstances
               /\ s.st.scopeStack = scopeStack
               /\ D.regs = s.st.regs
               /\ (regs[id].lifetime = "singleton" /\ s.err = "none") =>
                    /\ s.st.regs[id].instance = s.val
                    /\ LET again == enterWith(D, "get", NoScope, k, Undefined, args)
                       IN again.done /\ again.err = "none" /\ again.val = s.val
                    /\ \A B \in ScopeIds :
                         LET again == enterWith(createScope(D, B).st, "scopeGet", B, k, Undefined, args)
                         IN again.done /\ again.err = "none" /\ again.val = s.val

\* the factory of a singleton of the table runs, reached through a scope
C39_Witness ==
  /\ frames # <<>>
  /\ regs[Top(Container).rec].lifetime = "singleton"
  /\ Top(Container).kind = "scopeGet"
  /\ Top(Container).rec \in Range(services)

\* C40: get on a registration whose lifetime tag is none of singleton,
\* transient, scoped, factory (replace installs it) raises
\* UnsupportedLifetime without calling the factory and without changing the
\* record, a cache or the scope stack; tryGet gives undefined and
\* getOrDefault the fallback.
C40_UnsupportedLifetime ==
  \A k \in DOMAIN services, c \in Calls, args \in ArgLists :
    LET e == enterWith(Container, c[1], c[2], k, Fallback, args)
    IN regs[services[k]].lifetime \notin Lifetimes =>
         /\ e.done
         /\ e.st = Container
         /\ c[1] \in {"get", "scopeGet"} => e.err = "UnsupportedLifetime"
         /\ c[1] = "tryGet" => e.err = "none" /\ e.val = Undefined
         /\ c[1] = "getOrDefault" => e.err = "none" /\ e.val = Fallback
         /\ ~getServiceInfo(Container, k).hasInstance

\* how a tag outside the enumeration gets into the table: replace stores it
\* in the new record as it is
ReplaceTakesAnyTag ==
  \A name \in Names, aliases \in AnyAliases :
    LET p == replace(Container, name, Unknown, "g", aliases)
    IN name \in DOMAIN p.st.services /\ p.st.regs[p.st.services[name]].lifetime = Unknown

\* replace gave a registration a tag outside the enumeration, under its
\* name and an alias, and there is a scope to call it through
C40_Witness ==
  /\ scopes # {}
  /\ Cardinality(KeysOf(Unknown)) = 2
  /\ get(Container, "b").err = "UnsupportedLifetime"

\* get(k), called by the factory of registration id that is running in C,
\* calls that factory again: the slot of the record and the entry of the
\* current scope are still empty, before the call and after it
Again(C, k, id) ==
  LET e == enterWith(C, "get", NoScope, k, Undefined, <<>>)
      registration == C.regs[id]
  IN /\ ~e.done
     /\ Len(e.st.frames) = Len(C.frames) + 1
     /\ Top(e.st).rec = id
     /\ e.st.services = C.services
     /\ e.st.regs[id].instance = NOT_CREATED
     /\ registration.lifetime = "scoped" =>
          /\ Top(e.st).cur = Top(C).cur
          /\ ~Cached(e.st, Top(C).cur, registration.name)

\* the factory that is running calls get for its own name: the call reaches
\* the factory again, and so does the call of that one
SelfReentry ==
  frames # <<>> =>
    LET id == Top(Container).rec
    IN \A k \in DOMAIN services :
         services[k] = id =>
           /\ regs[id].instance = NOT_CREATED
           /\ Again(Container, k, id)
           /\ Again(enterWith(Container, "get", NoScope, k, Undefined, <<>>).st, k, id)

\* factories that re-enter no name that is being resolved: the names being
\* resolved differ, so that no more factories run than there are names
DepthBounded ==
  /\ \A i \in DOMAIN frames : \A j \in DOMAIN frames :
       i # j => regs[frames[i].rec].name # regs[frames[j].rec].name
  /\ Len(frames) <= Cardinality(Acyclic.primaries)
  /\ Len(frames) < Acyclic.depth

\* every resolution returns or raises
Terminates == (frames # <<>>) ~> (frames = <<>>)

====
